---- MODULE Spec2Model ----
(***************************************************************************)
(* A model of the google-slides-mcp adapter layer: the unit, colour and    *)
(* geometry helpers, the placeholder locator, the batch request builders   *)
(* and the slide categoriser.                                              *)
(*                                                                         *)
(* A tool invocation fetches the remote presentation, computes, submits at *)
(* most a few batches and returns; invocations share no local state.  The  *)
(* model therefore follows one invocation: the remote presentation is      *)
(* drawn by Init, the invocation's arguments are drawn by the action, and  *)
(* the action records the arguments, the batches handed to                 *)
(* SlidesService.batch_update and the returned (or raised) result.         *)
(*                                                                         *)
(* Numbers: native units (EMU) are integers.  Python floats are modelled   *)
(* as exact rationals (a numerator over a denominator); the claims checked *)
(* here are about the arithmetic, not about binary rounding noise.         *)
(***************************************************************************)
EXTENDS Integers, Sequences, FiniteSets, TLC

VARIABLES
    pc,            \* "idle" before the invocation, "done" after it returned or raised
    call,          \* the invocation: its operation name and arguments
    presentation,  \* the remote presentation the invocation fetches
    batches,       \* the request lists handed to SlidesService.batch_update, in order
    directory,     \* the credential files of the FileTokenStore: file name to content
    result         \* what the invocation returned, or the error it raised

vars == <<pc, call, presentation, batches, directory, result>>

\* Python's None.
None == "None"

NoCall == [op |-> "none"]
NoResult == [status |-> "none"]

\* A credentials directory without files.
NoFiles == <<>>
NoPresentation == [slides |-> <<>>]

\* ------------------------------------------------------------------ helpers

RECURSIVE SumSeq(_)
SumSeq(s) == IF s = <<>> THEN 0 ELSE Head(s) + SumSeq(Tail(s))

RECURSIVE FlattenSeq(_)
FlattenSeq(ss) == IF ss = <<>> THEN <<>> ELSE Head(ss) \o FlattenSeq(Tail(ss))

SeqsUpTo(S, n) == UNION {[1..k -> S] : k \in 0..n}

Abs(a) == IF a < 0 THEN -a ELSE a

\* int(a / b) for b > 0: Python's true division followed by int(), which
\* truncates toward zero.
TruncDiv(a, b) == IF a >= 0 THEN a \div b ELSE -((-a) \div b)

\* JSON objects are functions from keys to values; a key the API omitted is not
\* in the DOMAIN.  EmptyDict is Python's {}.
EmptyDict == <<>>

\* d.get(key, default)
Get(d, key, default) == IF key \in DOMAIN d THEN d[key] ELSE default

\* Python's truth value of a dict.
NonEmpty(d) == DOMAIN d # {}

\* ------------------------------------------------------------------ units.py

EMU_PER_INCH == 914400
SLIDE_WIDTH_EMU == 9144000
SLIDE_HEIGHT_16_9_EMU == 5143500

EMU_PER_POINT == 12700
EMU_PER_CM == 360000
EMU_PER_PIXEL_96DPI == 9525

\* A float argument is the rational num/den (den > 0) the caller wrote; the
\* function receives the double nearest to it.  For h hundredths, 0 < h <= 260,
\* these are the h for which the binary64 product (h / 100) * factor comes out
\* just below the integer h * factor / 100 (0.57 * 914400 is 521207.99999999994);
\* for every other h up to 260, for 10.0 and for 20.0 the product is that
\* integer, or no integer at all.  The product of -h / 100 is the mirror image.
BelowHundredths(factor) ==
    CASE factor = EMU_PER_INCH -> {57, 113, 114, 201, 203, 205, 207, 209, 226, 228}
      [] factor = EMU_PER_POINT ->
            {29, 57, 58, 113, 114, 115, 116, 201, 203, 205, 207, 226, 228, 230, 232,
             251, 253, 255, 257}
      [] factor = EMU_PER_CM ->
            {35, 57, 69, 70, 113, 114, 115, 138, 139, 140, 201, 203, 205, 226, 228, 230,
             251, 253, 255}
      [] factor = EMU_PER_PIXEL_96DPI -> {164, 228}
      [] OTHER -> {}

\* Whether the double product value * factor is just below an integer that
\* the exact product reaches.
ProductIsBelow(value, factor) ==
    value.den = 100 /\ Abs(value.num) \in BelowHundredths(factor)

Sign(a) == IF a > 0 THEN 1 ELSE IF a < 0 THEN -1 ELSE 0

\* int(value * factor / divisor): int() truncates the double toward zero, so a
\* product just below an integer loses the whole unit.
IntOfQuotient(value, factor, divisor) ==
    LET exact == TruncDiv(value.num * factor, value.den * divisor)
    IN  IF ProductIsBelow(value, factor) /\ (value.num * factor) % (value.den * divisor) = 0
        THEN exact - Sign(exact)
        ELSE exact

\* int(inches * EMU_PER_INCH)
inches_to_emu(inches) == IntOfQuotient(inches, EMU_PER_INCH, 1)

\* emu / EMU_PER_INCH, kept as an exact rational.
emu_to_inches(emu) == [num |-> emu, den |-> EMU_PER_INCH]

points_to_emu(points) == IntOfQuotient(points, EMU_PER_POINT, 1)

emu_to_points(emu) == [num |-> emu, den |-> EMU_PER_POINT]

cm_to_emu(cm) == IntOfQuotient(cm, EMU_PER_CM, 1)

emu_to_cm(emu) == [num |-> emu, den |-> EMU_PER_CM]

pixels_to_emu(pixels, dpi) ==
    IF dpi = 96 THEN IntOfQuotient(pixels, EMU_PER_PIXEL_96DPI, 1)
    ELSE IntOfQuotient(pixels, EMU_PER_INCH, dpi)

emu_to_pixels(emu, dpi) ==
    IF dpi = 96 THEN [num |-> emu, den |-> EMU_PER_PIXEL_96DPI]
    ELSE [num |-> emu * dpi, den |-> EMU_PER_INCH]

\* ------------------------------------------------------------------ transforms.py

SlideSize(width_emu, height_emu) == [width_emu |-> width_emu, height_emu |-> height_emu]

SLIDE_SIZES_16_9 == SlideSize(SLIDE_WIDTH_EMU, SLIDE_HEIGHT_16_9_EMU)

\* A plausible slip: int((a - b) / 2), which truncates toward zero, for (a - b) // 2.
calculate_alignment_position_trunc(slide_size, element_width_emu, element_height_emu, horizontal, vertical, margin_emu) ==
    << CASE horizontal = "left" -> margin_emu
         [] horizontal = "center" -> TruncDiv(slide_size.width_emu - element_width_emu, 2)
         [] horizontal = "right" -> slide_size.width_emu - element_width_emu - margin_emu
         [] OTHER -> 0,
       CASE vertical = "top" -> margin_emu
         [] vertical = "center" -> TruncDiv(slide_size.height_emu - element_height_emu, 2)
         [] vertical = "bottom" -> slide_size.height_emu - element_height_emu - margin_emu
         [] OTHER -> 0 >>

\* Python's // is floor division, as is \div.
calculate_alignment_position(slide_size, element_width_emu, element_height_emu, horizontal, vertical, margin_emu) ==
    LET x == IF horizontal = "left" THEN margin_emu
             ELSE IF horizontal = "center"
                  THEN (slide_size.width_emu - element_width_emu) \div 2
             ELSE IF horizontal = "right"
                  THEN slide_size.width_emu - element_width_emu - margin_emu
             ELSE 0
        y == IF vertical = "top" THEN margin_emu
             ELSE IF vertical = "center"
                  THEN (slide_size.height_emu - element_height_emu) \div 2
             ELSE IF vertical = "bottom"
                  THEN slide_size.height_emu - element_height_emu - margin_emu
             ELSE 0
    IN  <<x, y>>

\* A plausible slip: "and" for "or", so that one block is enough.
HasGeometry_either(page_element) ==
    \/ NonEmpty(Get(page_element, "transform", EmptyDict))
    \/ NonEmpty(Get(page_element, "size", EmptyDict))

\* Raises ValueError when the transform or the size block is missing or empty.
HasGeometry(page_element) ==
    /\ NonEmpty(Get(page_element, "transform", EmptyDict))
    /\ NonEmpty(Get(page_element, "size", EmptyDict))

\* (x, y, width, height) of an element that has geometry.  The numbers of the
\* documents tried are whole, so that int() leaves them as they are.
extract_element_bounds(page_element) ==
    LET transform == Get(page_element, "transform", EmptyDict)
        size == Get(page_element, "size", EmptyDict)
    IN  << Get(transform, "translateX", 0),
           Get(transform, "translateY", 0),
           Get(Get(size, "width", EmptyDict), "magnitude", 0),
           Get(Get(size, "height", EmptyDict), "magnitude", 0) >>

\* A plausible slip: the rotation accepted and ignored.
build_absolute_transform_any_rotation(translate_x_emu, translate_y_emu, scale_x, scale_y, rotation_angle) ==
    [status |-> "ok",
     value |-> [scaleX |-> scale_x, scaleY |-> scale_y, shearX |-> 0, shearY |-> 0,
                translateX |-> translate_x_emu, translateY |-> translate_y_emu,
                unit |-> "EMU"]]

\* The outcome of build_absolute_transform: the transform, or the error raised.
build_absolute_transform(translate_x_emu, translate_y_emu, scale_x, scale_y, rotation_angle) ==
    IF rotation_angle # 0
    THEN [status |-> "raised", error |-> "NotImplementedError",
          message |-> "Rotation transforms are not yet supported"]
    ELSE [status |-> "ok",
          value |-> [scaleX |-> scale_x, scaleY |-> scale_y, shearX |-> 0, shearY |-> 0,
                     translateX |-> translate_x_emu, translateY |-> translate_y_emu,
                     unit |-> "EMU"]]

\* ------------------------------------------------------------------ bounds

MaxExtent == 4
MaxMargin == 2

\* Widths and heights tried: the small ones give odd and negative differences.
ContainerWidths == {SLIDE_WIDTH_EMU} \cup 0..MaxExtent
ContainerHeights == {SLIDE_HEIGHT_16_9_EMU} \cup 0..MaxExtent
ElementExtents == {2 * EMU_PER_INCH} \cup 0..MaxExtent
HorizontalAligns == {None, "left", "center", "right"}
VerticalAligns == {None, "top", "center", "bottom"}

\* ------------------------------------------------------------------ actions: transforms

CallAlignmentPosition ==
    /\ pc = "idle"
    /\ \E W \in ContainerWidths, H \in ContainerHeights,
          w \in ElementExtents, h \in ElementExtents,
          horizontal \in HorizontalAligns, vertical \in VerticalAligns,
          margin_emu \in 0..MaxMargin :
          /\ call' = [op |-> "calculate_alignment_position",
                      slide_size |-> SlideSize(W, H),
                      element_width_emu |-> w, element_height_emu |-> h,
                      horizontal |-> horizontal, vertical |-> vertical,
                      margin_emu |-> margin_emu]
          /\ result' = [status |-> "ok",
                        value |-> calculate_alignment_position(
                                      SlideSize(W, H), w, h, horizontal, vertical, margin_emu)]
    /\ pc' = "done"
    /\ UNCHANGED <<presentation, batches, directory>>

\* Scale factors (passed through unchanged) and rotation angles in degrees.
Scales == {-1, 0, 1, 2, 3}
Rotations == {0, 1, 90, -45}

\* A keyword argument left out takes its default.
Defaulted == "defaulted"

\* The scale and rotation arguments as given: Defaulted for one left out.
ScaleArgs == [kind : {"given"}, scale : Scales] \cup {[kind |-> Defaulted]}
RotationArgs == [kind : {"given"}, angle : Rotations] \cup {[kind |-> Defaulted]}

ScaleOf(arg) == IF arg.kind = Defaulted THEN 1 ELSE arg.scale
AngleOf(arg) == IF arg.kind = Defaulted THEN 0 ELSE arg.angle

CallBuildAbsoluteTransform ==
    /\ pc = "idle"
    /\ \E x \in (-MaxExtent)..MaxExtent, y \in (-MaxMargin)..MaxMargin,
          scale_x \in ScaleArgs, scale_y \in ScaleArgs, rotation_angle \in RotationArgs :
          /\ call' = [op |-> "build_absolute_transform",
                      translate_x_emu |-> x, translate_y_emu |-> y,
                      scale_x |-> scale_x, scale_y |-> scale_y,
                      rotation_angle |-> rotation_angle]
          /\ result' = build_absolute_transform(x, y, ScaleOf(scale_x), ScaleOf(scale_y),
                                                AngleOf(rotation_angle))
    /\ pc' = "done"
    /\ UNCHANGED <<presentation, batches, directory>>

InitPure ==
    /\ pc = "idle"
    /\ call = NoCall
    /\ presentation = NoPresentation
    /\ batches = <<>>
    /\ directory = NoFiles
    /\ result = NoResult

NextTransforms == CallAlignmentPosition \/ CallBuildAbsoluteTransform

SpecTransforms == InitPure /\ [][NextTransforms]_vars

\* ------------------------------------------------------------------ claims

Returned(op) == pc = "done" /\ call.op = op /\ result.status = "ok"

\* C1: calculate_alignment_position returns x = 0 for no horizontal keyword,
\* x = margin for left, x = floor((W - w) / 2) for center (margin ignored),
\* x = W - w - margin for right, and the symmetric y for absent / top /
\* center / bottom against the heights; x is determined by the horizontal
\* inputs alone and y by the vertical inputs alone.
C1_AlignmentPosition ==
    Returned("calculate_alignment_position") =>
        LET W == call.slide_size.width_emu
            H == call.slide_size.height_emu
            w == call.element_width_emu
            h == call.element_height_emu
            m == call.margin_emu
            x == result.value[1]
            y == result.value[2]
        IN  /\ call.horizontal = None => x = 0
            /\ call.horizontal = "left" => x = m
            /\ call.horizontal = "center" => 2 * x <= W - w /\ W - w < 2 * x + 2
            /\ call.horizontal = "right" => x = W - w - m
            /\ call.vertical = None => y = 0
            /\ call.vertical = "top" => y = m
            /\ call.vertical = "center" => 2 * y <= H - h /\ H - h < 2 * y + 2
            /\ call.vertical = "bottom" => y = H - h - m

\* An element wider than its container by an odd amount, centred, with a margin
\* that must be ignored, and bottom-aligned with the margin applied.
C1_Witness ==
    /\ Returned("calculate_alignment_position")
    /\ call.horizontal = "center" /\ call.vertical = "bottom"
    /\ call.margin_emu > 0
    /\ call.slide_size.width_emu - call.element_width_emu = -3
    /\ result.value[1] = -2
    /\ result.value[2] = call.slide_size.height_emu - call.element_height_emu - call.margin_emu

\* C14: build_absolute_transform fails with NotImplementedError for every
\* nonzero rotation_angle and returns no transform; for rotation 0 (given or
\* defaulted) it returns a record whose shearX and shearY are 0, whose
\* translateX / translateY and scaleX / scaleY are exactly the arguments, the
\* scales defaulting to 1, in unit EMU.
C14_RotationNotImplemented ==
    (pc = "done" /\ call.op = "build_absolute_transform") =>
        LET rotated == call.rotation_angle.kind = "given" /\ call.rotation_angle.angle # 0
            scale(arg) == IF arg.kind = "given" THEN arg.scale ELSE 1
        IN  /\ rotated =>
                  /\ result.status = "raised"
                  /\ result.error = "NotImplementedError"
                  /\ "value" \notin DOMAIN result
            /\ ~rotated =>
                  /\ result.status = "ok"
                  /\ result.value = [scaleX |-> scale(call.scale_x), scaleY |-> scale(call.scale_y),
                                     shearX |-> 0, shearY |-> 0,
                                     translateX |-> call.translate_x_emu,
                                     translateY |-> call.translate_y_emu,
                                     unit |-> "EMU"]

\* A quarter turn asked for with otherwise valid arguments: the call fails.
C14_Witness ==
    /\ pc = "done" /\ call.op = "build_absolute_transform"
    /\ call.rotation_angle = [kind |-> "given", angle |-> 90]
    /\ call.scale_x = [kind |-> "given", scale |-> 2]
    /\ call.scale_y = [kind |-> Defaulted]
    /\ result.status = "raised" /\ result.error = "NotImplementedError"

\* ------------------------------------------------------------------ units.py: calls

MaxHundredths == 120
MaxDyadic == 40
MaxEmu == 30

\* Decimal arguments (hundredths, 10.0 and 20.0) and arguments with an exact
\* binary representation whose products are no whole numbers (n / 256), and
\* the values of the round-trip tests (5.5 and 18.0).
FloatArgs ==
    {[num |-> h, den |-> 100] : h \in ((-MaxHundredths)..MaxHundredths) \cup {1000, 2000}}
        \cup {[num |-> n, den |-> 256] : n \in (-MaxDyadic)..MaxDyadic}
        \cup {[num |-> 11, den |-> 2], [num |-> 18, den |-> 1]}

EmuArgs ==
    ((-MaxEmu)..MaxEmu)
        \cup {EMU_PER_INCH, SLIDE_WIDTH_EMU, EMU_PER_POINT, EMU_PER_CM, EMU_PER_PIXEL_96DPI}

Units == {"inches", "points", "cm", "pixels"}

\* The dpi argument of the pixel conversions; the other units have none.
DpiArgs(unit) == IF unit = "pixels" THEN {96, 72} ELSE {96}

ToEmu(unit, value, dpi) ==
    CASE unit = "inches" -> inches_to_emu(value)
      [] unit = "points" -> points_to_emu(value)
      [] unit = "cm" -> cm_to_emu(value)
      [] unit = "pixels" -> pixels_to_emu(value, dpi)

FromEmu(unit, emu, dpi) ==
    CASE unit = "inches" -> emu_to_inches(emu)
      [] unit = "points" -> emu_to_points(emu)
      [] unit = "cm" -> emu_to_cm(emu)
      [] unit = "pixels" -> emu_to_pixels(emu, dpi)

CallToEmu ==
    /\ pc = "idle"
    /\ \E unit \in Units, value \in FloatArgs :
          \E dpi \in DpiArgs(unit) :
              /\ call' = [op |-> "to_emu", unit |-> unit, value |-> value, dpi |-> dpi]
              /\ result' = [status |-> "ok", value |-> ToEmu(unit, value, dpi)]
    /\ pc' = "done"
    /\ UNCHANGED <<presentation, batches, directory>>

CallFromEmu ==
    /\ pc = "idle"
    /\ \E unit \in Units, emu \in EmuArgs :
          \E dpi \in DpiArgs(unit) :
              /\ call' = [op |-> "from_emu", unit |-> unit, emu |-> emu, dpi |-> dpi]
              /\ result' = [status |-> "ok", value |-> FromEmu(unit, emu, dpi)]
    /\ pc' = "done"
    /\ UNCHANGED <<presentation, batches, directory>>

\* TestInchesConversion.test_roundtrip and TestPointsConversion.test_roundtrip,
\* for every unit: emu_to_x(x_to_emu(original)).
test_roundtrip ==
    /\ pc = "idle"
    /\ \E unit \in Units, original \in FloatArgs :
          /\ call' = [op |-> "test_roundtrip", unit |-> unit, original |-> original]
          /\ result' = [status |-> "ok",
                        value |-> FromEmu(unit, ToEmu(unit, original, 96), 96)]
    /\ pc' = "done"
    /\ UNCHANGED <<presentation, batches, directory>>

NextUnits == CallToEmu \/ CallFromEmu \/ test_roundtrip

SpecUnits == InitPure /\ [][NextUnits]_vars

\* ---- claims

\* The conversion factor of a unit, as the claims state it.
UnitFactor(unit) ==
    CASE unit = "inches" -> 914400
      [] unit = "points" -> 12700
      [] unit = "cm" -> 360000
      [] unit = "pixels" -> 9525

FromEmuIsExact ==
    (Returned("from_emu") /\ call.dpi = 96) =>
        /\ result.value = [num |-> call.emu, den |-> UnitFactor(call.unit)]
        /\ call.emu = 0 => result.value.num = 0

\* C12: for each unit (inch 914400, point 12700, centimetre 360000, pixel at
\* 96 dpi 9525) toNative(x) is x times the unit's factor truncated toward
\* zero, for positive, zero and negative x, and fromNative(n) is exactly n
\* divided by the factor, with fromNative(0) = 0.
C12_TruncatedProduct ==
    /\ (Returned("to_emu") /\ call.dpi = 96) =>
          result.value = TruncDiv(call.value.num * UnitFactor(call.unit), call.value.den)
    /\ FromEmuIsExact

\* The round trip is off by less than the reciprocal of the factor.
RoundTripWithinOneUnit ==
    Abs(result.value.num * call.original.den - call.original.num * result.value.den)
        < call.original.den

RoundTripIsExact ==
    result.value.num * call.original.den = call.original.num * result.value.den

\* C13: for every unit and every x, fromNative(toNative(x)) differs from x by
\* less than the reciprocal of the unit's factor, and equals x whenever x times
\* the factor is an integer.
C13_UnitRoundTrip ==
    Returned("test_roundtrip") =>
        /\ result.value.den = UnitFactor(call.unit)
        /\ RoundTripWithinOneUnit
        /\ (call.original.num * UnitFactor(call.unit)) % call.original.den = 0 => RoundTripIsExact

\* ------------------------------------------------------------------ positioning.py

\* The slide size the positioning tools use: the presentation's pageSize when
\* both magnitudes are non-zero, the 16:9 preset otherwise.
PageSlideSize(pres) ==
    LET page_size == Get(pres, "pageSize", EmptyDict)
        slide_size_width == Get(Get(page_size, "width", EmptyDict), "magnitude", 0)
        slide_size_height == Get(Get(page_size, "height", EmptyDict), "magnitude", 0)
    IN  IF NonEmpty(page_size) /\ slide_size_width # 0 /\ slide_size_height # 0
        THEN SlideSize(slide_size_width, slide_size_height)
        ELSE SLIDE_SIZES_16_9

\* Every page element of the presentation, slide by slide.
AllPageElements(pres) ==
    FlattenSeq([i \in 1..Len(pres.slides) |-> Get(pres.slides[i], "pageElements", <<>>)])

\* The page elements whose objectId is among element_ids, in document order.
TargetedElements(pres, element_ids) ==
    SelectSeq(AllPageElements(pres),
              LAMBDA pe : \E i \in 1..Len(element_ids) : element_ids[i] = pe.objectId)

ElementInfo(page_element) ==
    LET bounds == extract_element_bounds(page_element)
    IN  [id |-> page_element.objectId, x |-> bounds[1], y |-> bounds[2],
         width |-> bounds[3], height |-> bounds[4]]

\* id_order = {id_: i for i, id_ in enumerate(element_ids)}: the last index wins.
IdOrder(element_ids, id) ==
    LET at == {i \in 1..Len(element_ids) : element_ids[i] = id}
    IN  IF at = {} THEN 0 ELSE (CHOOSE i \in at : \A j \in at : j <= i) - 1

RECURSIVE InsertByOrder(_, _, _)
InsertByOrder(sorted, e, element_ids) ==
    IF sorted = <<>> THEN <<e>>
    ELSE IF IdOrder(element_ids, Head(sorted).id) <= IdOrder(element_ids, e.id)
         THEN <<Head(sorted)>> \o InsertByOrder(Tail(sorted), e, element_ids)
         ELSE <<e>> \o sorted

\* list.sort(key = id_order): a stable sort.
RECURSIVE SortByOrder(_, _)
SortByOrder(elements, element_ids) ==
    IF elements = <<>> THEN <<>>
    ELSE InsertByOrder(SortByOrder(SubSeq(elements, 1, Len(elements) - 1), element_ids),
                       elements[Len(elements)], element_ids)

\* A plausible slip: // for the true division, which floors a negative gap.
DistributeGap_floor(spacing, container_extent, extents) ==
    IF spacing.kind = "even"
    THEN (container_extent - SumSeq(extents)) \div (Len(extents) + 1)
    ELSE inches_to_emu(spacing)

\* int(gap): gap is available_space / (n + 1), a float, for "even" and
\* inches_to_emu(spacing) otherwise.
DistributeGap(spacing, container_extent, extents) ==
    IF spacing.kind = "even"
    THEN TruncDiv(container_extent - SumSeq(extents), Len(extents) + 1)
    ELSE inches_to_emu(spacing)

\* The loop: current = int(gap); per element, place it and advance by its
\* extent plus int(gap).
RECURSIVE DistributePositions(_, _, _)
DistributePositions(extents, current, gap) ==
    IF extents = <<>> THEN <<>>
    ELSE <<current>> \o DistributePositions(Tail(extents), current + Head(extents) + gap, gap)

TransformRequest(object_id, x, y) ==
    [updatePageElementTransform |->
        [objectId |-> object_id, transform |-> build_absolute_transform(x, y, 1, 1, 0).value,
         applyMode |-> "ABSOLUTE"]]

\* A plausible slip: one located element taken as enough to distribute.
DistributeOutcome_one_suffices(pres, element_ids, direction, spacing) ==
    LET slide_size == PageSlideSize(pres)
        targeted == TargetedElements(pres, element_ids)
        located == [i \in 1..Len(targeted) |-> ElementInfo(targeted[i])]
        elements == SortByOrder(located, element_ids)
        n == Len(elements)
        horizontal == direction = "horizontal"
        extents == [i \in 1..n |-> IF horizontal THEN elements[i].width ELSE elements[i].height]
        container == IF horizontal THEN slide_size.width_emu ELSE slide_size.height_emu
        gap == DistributeGap(spacing, container, extents)
        positions == DistributePositions(extents, gap, gap)
        new_x(i) == IF horizontal THEN positions[i] ELSE elements[i].x
        new_y(i) == IF horizontal THEN elements[i].y ELSE positions[i]
    IN  IF \E i \in 1..Len(targeted) : ~HasGeometry(targeted[i])
        THEN [batches |-> <<>>,
              result |-> [status |-> "raised", error |-> "ValueError",
                          message |-> <<"Page element missing transform or size information">>]]
        ELSE IF n < 1
        THEN [batches |-> <<>>,
              result |-> [status |-> "ok",
                          value |-> [error |-> "Need at least 2 elements to distribute"]]]
        ELSE [batches |-> << [i \in 1..n |-> TransformRequest(elements[i].id, new_x(i), new_y(i))] >>,
              result |-> [status |-> "ok",
                          value |-> [elements |->
                              [i \in 1..n |-> [element_id |-> elements[i].id,
                                               x_inches |-> emu_to_inches(new_x(i)),
                                               y_inches |-> emu_to_inches(new_y(i))]]]]]

\* What distribute_elements submits and returns for the located, sorted elements.
DistributeOutcome(pres, element_ids, direction, spacing) ==
    LET slide_size == PageSlideSize(pres)
        targeted == TargetedElements(pres, element_ids)
        located == [i \in 1..Len(targeted) |-> ElementInfo(targeted[i])]
        elements == SortByOrder(located, element_ids)
        n == Len(elements)
        horizontal == direction = "horizontal"
        extents == [i \in 1..n |-> IF horizontal THEN elements[i].width ELSE elements[i].height]
        container == IF horizontal THEN slide_size.width_emu ELSE slide_size.height_emu
        gap == DistributeGap(spacing, container, extents)
        positions == DistributePositions(extents, gap, gap)
        new_x(i) == IF horizontal THEN positions[i] ELSE elements[i].x
        new_y(i) == IF horizontal THEN elements[i].y ELSE positions[i]
    IN  IF \E i \in 1..Len(targeted) : ~HasGeometry(targeted[i])
        THEN [batches |-> <<>>,
              result |-> [status |-> "raised", error |-> "ValueError",
                          message |-> <<"Page element missing transform or size information">>]]
        ELSE IF n < 2
        THEN [batches |-> <<>>,
              result |-> [status |-> "ok",
                          value |-> [error |-> "Need at least 2 elements to distribute"]]]
        ELSE [batches |-> << [i \in 1..n |-> TransformRequest(elements[i].id, new_x(i), new_y(i))] >>,
              result |-> [status |-> "ok",
                          value |-> [elements |->
                              [i \in 1..n |-> [element_id |-> elements[i].id,
                                               x_inches |-> emu_to_inches(new_x(i)),
                                               y_inches |-> emu_to_inches(new_y(i))]]]]]

\* align_elements: for each supplied id in order, the first element with that
\* id on each slide (the break leaves the loop over one slide's elements only).
AlignFound(pres, element_ids) ==
    LET first_on(slide, elem_id) ==
            LET page_elements == Get(slide, "pageElements", <<>>)
                at == {j \in 1..Len(page_elements) :
                          Get(page_elements[j], "objectId", None) = elem_id}
            IN  IF at = {} THEN <<>>
                ELSE << page_elements[CHOOSE j \in at : \A k \in at : j <= k] >>
    IN  FlattenSeq([i \in 1..Len(element_ids) |->
            FlattenSeq([s \in 1..Len(pres.slides) |-> first_on(pres.slides[s], element_ids[i])])])

\* A plausible slip: the reference's center taken for the element's leading edge.
AlignPosition_center_as_edge(elem, ref_elem, alignment) ==
    CASE alignment = "left" -> << ref_elem.x, elem.y >>
      [] alignment = "center" -> << ref_elem.x + ref_elem.width \div 2, elem.y >>
      [] alignment = "right" -> << (ref_elem.x + ref_elem.width) - elem.width, elem.y >>
      [] alignment = "top" -> << elem.x, ref_elem.y >>
      [] alignment = "middle" -> << elem.x, ref_elem.y + ref_elem.height \div 2 >>
      [] alignment = "bottom" -> << elem.x, (ref_elem.y + ref_elem.height) - elem.height >>
      [] OTHER -> << elem.x, elem.y >>

\* (new_x, new_y) of one element; // is floor division.
AlignPosition(elem, ref_elem, alignment) ==
    CASE alignment = "left" -> << ref_elem.x, elem.y >>
      [] alignment = "center" ->
            << (ref_elem.x + ref_elem.width \div 2) - elem.width \div 2, elem.y >>
      [] alignment = "right" -> << (ref_elem.x + ref_elem.width) - elem.width, elem.y >>
      [] alignment = "top" -> << elem.x, ref_elem.y >>
      [] alignment = "middle" ->
            << elem.x, (ref_elem.y + ref_elem.height \div 2) - elem.height \div 2 >>
      [] alignment = "bottom" -> << elem.x, (ref_elem.y + ref_elem.height) - elem.height >>
      [] OTHER -> << elem.x, elem.y >>

\* What align_elements submits and returns.
AlignOutcome(pres, element_ids, alignment, reference) ==
    LET slide_size == PageSlideSize(pres)
        found == AlignFound(pres, element_ids)
        elements == [i \in 1..Len(found) |-> ElementInfo(found[i])]
        n == Len(elements)
        ref_elem == CASE reference = "first" -> elements[1]
                      [] reference = "last" -> elements[n]
                      [] OTHER -> [x |-> 0, y |-> 0, width |-> slide_size.width_emu,
                                   height |-> slide_size.height_emu]
        new(i) == AlignPosition(elements[i], ref_elem, alignment)
    IN  IF \E i \in 1..Len(found) : ~HasGeometry(found[i])
        THEN [batches |-> <<>>,
              result |-> [status |-> "raised", error |-> "ValueError",
                          message |-> <<"Page element missing transform or size information">>]]
        ELSE IF n < 1
        THEN [batches |-> <<>>,
              result |-> [status |-> "ok", value |-> [error |-> "No elements found"]]]
        ELSE [batches |-> << [i \in 1..n |-> TransformRequest(elements[i].id, new(i)[1], new(i)[2])] >>,
              result |-> [status |-> "ok",
                          value |-> [elements |->
                              [i \in 1..n |-> [element_id |-> elements[i].id,
                                               x_inches |-> emu_to_inches(new(i)[1]),
                                               y_inches |-> emu_to_inches(new(i)[2])]]]]]

\* An optional argument left at None, and one that was given; a float that
\* was given is the fraction itself.
Unset == [kind |-> "None"]
Given(v) == [kind |-> "given", value |-> v]

\* A plausible slip: the scan keeps going and the last match wins.
FindElement_last(pres, element_id) ==
    LET all == AllPageElements(pres)
        at == {i \in 1..Len(all) : Get(all[i], "objectId", None) = element_id}
    IN  IF at = {} THEN <<>>
        ELSE << all[CHOOSE i \in at : \A j \in at : j <= i] >>

\* The lookup loop of position_element and get_element_info: slides in order,
\* each slide's elements in order, both loops left at the first match.  The
\* result is <<element>>, or <<>> when the loops run out.
FindElement(pres, element_id) ==
    LET all == AllPageElements(pres)
        at == {i \in 1..Len(all) : Get(all[i], "objectId", None) = element_id}
    IN  IF at = {} THEN <<>>
        ELSE << all[CHOOSE i \in at : \A j \in at : i <= j] >>

\* new / current, a float, when current is non-zero, and the integer 1 otherwise.
ScaleFactor(new, current) ==
    IF current # 0 THEN [num |-> new, den |-> current] ELSE 1

\* What position_element submits and returns.
PositionOutcome(pres, element_id, x, y, width, height, horizontal_align, vertical_align) ==
    LET found == FindElement(pres, element_id)
        element == found[1]
        bounds == extract_element_bounds(element)
        current_x == bounds[1]
        current_y == bounds[2]
        current_width == bounds[3]
        current_height == bounds[4]
        new_width == IF width # Unset THEN inches_to_emu(width) ELSE current_width
        new_height == IF height # Unset THEN inches_to_emu(height) ELSE current_height
        slide_size == PageSlideSize(pres)
        aligned == calculate_alignment_position(slide_size, new_width, new_height,
                                                horizontal_align, vertical_align, 0)
        new_x == IF horizontal_align # None \/ vertical_align # None
                 THEN IF x # Unset THEN inches_to_emu(x) ELSE aligned[1]
                 ELSE IF x # Unset THEN inches_to_emu(x) ELSE current_x
        new_y == IF horizontal_align # None \/ vertical_align # None
                 THEN IF y # Unset THEN inches_to_emu(y) ELSE aligned[2]
                 ELSE IF y # Unset THEN inches_to_emu(y) ELSE current_y
        size_update ==
            [updatePageElementTransform |->
                [objectId |-> element_id,
                 transform |-> [scaleX |-> ScaleFactor(new_width, current_width),
                                scaleY |-> ScaleFactor(new_height, current_height),
                                shearX |-> 0, shearY |-> 0,
                                translateX |-> new_x, translateY |-> new_y,
                                unit |-> "EMU"],
                 applyMode |-> "ABSOLUTE"]]
        requests == << TransformRequest(element_id, new_x, new_y) >>
                    \o (IF width # Unset \/ height # Unset THEN << size_update >> ELSE <<>>)
    IN  IF found = <<>>
        THEN [batches |-> <<>>,
              result |-> [status |-> "raised", error |-> "ValueError",
                          message |-> <<"Element ", element_id, " not found in presentation">>]]
        ELSE IF ~HasGeometry(element)
        THEN [batches |-> <<>>,
              result |-> [status |-> "raised", error |-> "ValueError",
                          message |-> <<"Page element missing transform or size information">>]]
        ELSE [batches |-> << requests >>,
              result |-> [status |-> "ok",
                          value |-> [element_id |-> element_id,
                                     position |-> [x_inches |-> emu_to_inches(new_x),
                                                   y_inches |-> emu_to_inches(new_y)],
                                     size |-> [width_inches |-> emu_to_inches(new_width),
                                               height_inches |-> emu_to_inches(new_height)]]]]

\* ---- the presentations and arguments tried

MaxElementIds == 3

Magnitude(m) == [magnitude |-> m, unit |-> "EMU"]

\* Page sizes: a small page (elements overflow it, by amounts n + 1 does not
\* divide), a page the elements fit, and a page with a zero width.
PageSizes == { <<10, 9>>, <<4000, 3000>>, <<0, 9>> }
PageSizeDicts ==
    {EmptyDict} \cup {[pageSize |-> [width |-> Magnitude(p[1]), height |-> Magnitude(p[2])]] :
                        p \in PageSizes}

\* Sizes of both parities on both axes.
ElementSizes == { <<1001, 500>>, <<6, 5>> }

\* An element with its geometry; "missing" names the block the API left out.
GeometryElement(id, x, y, sz, missing) ==
    LET base == [objectId |-> id]
        transform == [transform |-> [scaleX |-> 1, scaleY |-> 1,
                                     translateX |-> x, translateY |-> y, unit |-> "EMU"]]
        size == [size |-> [width |-> Magnitude(sz[1]), height |-> Magnitude(sz[2])]]
    IN  CASE missing = "transform" -> base @@ size
          [] missing = "size" -> base @@ transform
          [] OTHER -> base @@ transform @@ size

\* Two slides, three elements with distinct positions; e2 or e3 may lack geometry.
GeometryPresentations ==
    { page @@
      [presentationId |-> "deck",
       slides |-> << [objectId |-> "p1",
                      pageElements |-> << GeometryElement("e1", 11, 21, s1, "none"),
                                          GeometryElement("e2", 12, 22, s2,
                                              IF miss = "e2" THEN "transform" ELSE "none") >>],
                     [objectId |-> "p2",
                      pageElements |-> << GeometryElement("e3", 13, 23, s3,
                                              IF miss = "e3" THEN "size" ELSE "none") >>] >>] :
      page \in PageSizeDicts, s1 \in ElementSizes, s2 \in ElementSizes, s3 \in ElementSizes,
      miss \in {"none", "e2", "e3"} }

ElementIdArgs == SeqsUpTo({"e1", "e2", "e3", "zz"}, MaxElementIds)

\* "even", a quarter inch, and a spacing that is no whole number of native units.
Spacings == { [kind |-> "even"],
              [kind |-> "inches", num |-> 1, den |-> 4],
              [kind |-> "inches", num |-> -5, den |-> 2 * EMU_PER_INCH] }

\* ---- actions

distribute_elements ==
    /\ pc = "idle"
    /\ \E element_ids \in ElementIdArgs, direction \in {"horizontal", "vertical"},
          spacing \in Spacings :
          LET out == DistributeOutcome(presentation, element_ids, direction, spacing)
          IN  /\ call' = [op |-> "distribute_elements", element_ids |-> element_ids,
                          direction |-> direction, spacing |-> spacing]
              /\ batches' = out.batches
              /\ result' = out.result
    /\ pc' = "done"
    /\ UNCHANGED <<presentation, directory>>

AlignIdArgs == SeqsUpTo({"e1", "e2", "e3", "zz"}, MaxElementIds - 1)
Alignments == {"left", "center", "right", "top", "middle", "bottom"}
References == {"first", "last", "slide"}

align_elements ==
    /\ pc = "idle"
    /\ \E element_ids \in AlignIdArgs, alignment \in Alignments, reference \in References :
          LET out == AlignOutcome(presentation, element_ids, alignment, reference)
          IN  /\ call' = [op |-> "align_elements", element_ids |-> element_ids,
                          alignment |-> alignment, reference |-> reference]
              /\ batches' = out.batches
              /\ result' = out.result
    /\ pc' = "done"
    /\ UNCHANGED <<presentation, directory>>

\* The ids looked up: present ones and one no element has.
LookupIds == {"e1", "e2", "e3", "zz"}

\* Coordinates and sizes in inches, or left unset.
XArgs == {Unset, [num |-> 1, den |-> 4]}
YArgs == {Unset, [num |-> 57, den |-> 100]}
WidthArgs == {Unset, [num |-> 1, den |-> 2]}
HeightArgs == {Unset, [num |-> 3, den |-> EMU_PER_INCH]}

position_element ==
    /\ pc = "idle"
    /\ \E element_id \in LookupIds, x \in XArgs, y \in YArgs,
          width \in WidthArgs, height \in HeightArgs,
          horizontal_align \in HorizontalAligns, vertical_align \in VerticalAligns :
          LET out == PositionOutcome(presentation, element_id, x, y, width, height,
                                     horizontal_align, vertical_align)
          IN  /\ call' = [op |-> "position_element", element_id |-> element_id,
                          x |-> x, y |-> y, width |-> width, height |-> height,
                          horizontal_align |-> horizontal_align,
                          vertical_align |-> vertical_align]
              /\ batches' = out.batches
              /\ result' = out.result
    /\ pc' = "done"
    /\ UNCHANGED <<presentation, directory>>

InitPositioning ==
    /\ pc = "idle"
    /\ call = NoCall
    /\ presentation \in GeometryPresentations
    /\ batches = <<>>
    /\ directory = NoFiles
    /\ result = NoResult

NextPositioning == distribute_elements \/ align_elements

SpecPositioning == InitPositioning /\ [][NextPositioning]_vars

\* ---- claims

\* The document's element with this id.
ElementById(id) ==
    LET all == AllPageElements(presentation)
    IN  all[CHOOSE i \in 1..Len(all) : all[i].objectId = id]

Distributed ==
    /\ Returned("distribute_elements")
    /\ "elements" \in DOMAIN result.value

\* The layout a distribute_elements batch must have for the gap g: the first
\* leading edge at g, each next one at previous + previous extent + g.
DistributedWithGap(g) ==
    LET reqs == batches[1]
        horizontal == call.direction = "horizontal"
        pos(i) == IF horizontal THEN reqs[i].updatePageElementTransform.transform.translateX
                  ELSE reqs[i].updatePageElementTransform.transform.translateY
        ext(i) == LET b == extract_element_bounds(
                               ElementById(reqs[i].updatePageElementTransform.objectId))
                  IN  IF horizontal THEN b[3] ELSE b[4]
    IN  /\ Len(reqs) >= 2
        /\ pos(1) = g
        /\ \A i \in 1..(Len(reqs) - 1) : pos(i + 1) = pos(i) + ext(i) + g

\* containerExtent - sum of the extents of the elements in the batch.
AvailableSpace ==
    LET reqs == batches[1]
        horizontal == call.direction = "horizontal"
        ext(i) == LET b == extract_element_bounds(
                               ElementById(reqs[i].updatePageElementTransform.objectId))
                  IN  IF horizontal THEN b[3] ELSE b[4]
        container == IF horizontal THEN PageSlideSize(presentation).width_emu
                     ELSE PageSlideSize(presentation).height_emu
    IN  container - SumSeq([i \in 1..Len(reqs) |-> ext(i)])

\* g is a / d rounded toward zero (d > 0).
IsTruncatedQuotient(g, a, d) ==
    /\ Abs(g) * d <= Abs(a) /\ Abs(a) < (Abs(g) + 1) * d
    /\ (a >= 0 => g >= 0) /\ (a <= 0 => g <= 0)

\* g is floor(a / d) (d > 0).
IsFloorQuotient(g, a, d) == g * d <= a /\ a < (g + 1) * d

\* g is the fixed spacing in native units: inches * 914400 truncated toward zero.
IsFixedGap(g) ==
    IsTruncatedQuotient(g, call.spacing.num * EMU_PER_INCH, call.spacing.den)

\* The position of the first element of the batch on the distributed axis.
FirstLeadingEdge ==
    IF call.direction = "horizontal"
    THEN batches[1][1].updatePageElementTransform.transform.translateX
    ELSE batches[1][1].updatePageElementTransform.transform.translateY

\* C2 as stated: with spacing "even" the gap is
\* floor((containerExtent - sum of extents) / (n + 1)), also when it is
\* negative; the first element is placed at gap and each next one at previous
\* position + previous extent + gap; a fixed spacing gives the same layout
\* with the fixed native gap.
C2_Original_FloorGap ==
    Distributed =>
        /\ DistributedWithGap(FirstLeadingEdge)
        /\ IF call.spacing.kind = "even"
           THEN IsFloorQuotient(FirstLeadingEdge, AvailableSpace, Len(batches[1]) + 1)
           ELSE IsFixedGap(FirstLeadingEdge)

\* C2 amended: with spacing "even" the gap is
\* (containerExtent - sum of extents) / (n + 1) truncated toward zero (the
\* floor when the elements fit the container, one more than the floor when
\* the space is negative and n + 1 does not divide it); the layout is as
\* stated, and a fixed spacing gives it with the fixed native gap.
C2_TruncatedGap ==
    Distributed =>
        /\ DistributedWithGap(FirstLeadingEdge)
        /\ IF call.spacing.kind = "even"
           THEN IsTruncatedQuotient(FirstLeadingEdge, AvailableSpace, Len(batches[1]) + 1)
           ELSE IsFixedGap(FirstLeadingEdge)

\* Three elements 6 wide on a page 10 wide, spacing "even": the space is -8,
\* the gap -2 and the leading edges -2, 2, 6.
C2_Witness ==
    /\ Distributed
    /\ call.spacing.kind = "even" /\ call.direction = "horizontal"
    /\ Len(batches) = 1 /\ Len(batches[1]) = 3
    /\ AvailableSpace = -8
    /\ [i \in 1..3 |-> batches[1][i].updatePageElementTransform.transform.translateX]
          = <<-2, 2, 6>>

\* The supplied ids that some element of the document has.
LocatedIds ==
    {id \in {call.element_ids[i] : i \in 1..Len(call.element_ids)} :
        \E i \in 1..Len(AllPageElements(presentation)) :
            AllPageElements(presentation)[i].objectId = id}

InsufficientElements ==
    /\ result.status = "ok"
    /\ result.value = [error |-> "Need at least 2 elements to distribute"]

\* C15 as stated: whenever fewer than 2 of the supplied ids are located,
\* distribute_elements returns the InsufficientElements error result (no
\* exception) and submits no batch.
C15_Original_InsufficientElements ==
    (pc = "done" /\ call.op = "distribute_elements" /\ Cardinality(LocatedIds) < 2) =>
        InsufficientElements /\ batches = <<>>

\* C15 amended: whenever fewer than 2 of the supplied ids are located,
\* distribute_elements submits no mutation batch, and it returns the
\* InsufficientElements error result (no exception) when every located element
\* has its transform and size; when the one located element lacks either, the
\* MissingGeometry ValueError is raised instead.  With 2 or more located
\* elements that have geometry there is no such error.
C15_InsufficientElements ==
    (pc = "done" /\ call.op = "distribute_elements") =>
        LET measurable == \A id \in LocatedIds : HasGeometry(ElementById(id))
        IN  /\ Cardinality(LocatedIds) < 2 =>
                  /\ batches = <<>>
                  /\ measurable => InsufficientElements
                  /\ ~measurable => (result.status = "raised" /\ result.error = "ValueError")
            /\ (Cardinality(LocatedIds) >= 2 /\ measurable) =>
                  (result.status = "ok" /\ "error" \notin DOMAIN result.value /\ Len(batches) = 1)

\* e1 and an id the document does not have: one element located, the error
\* result, nothing submitted.
C15_Witness ==
    /\ pc = "done" /\ call.op = "distribute_elements"
    /\ call.element_ids = <<"e1", "zz">>
    /\ LocatedIds = {"e1"}
    /\ InsufficientElements
    /\ batches = <<>>

\* (x, y, width, height) of the document's element with this id.
BoundsById(id) == extract_element_bounds(ElementById(id))

\* The ids align_elements was given that the document has, in the given order.
AlignedIds ==
    SelectSeq(call.element_ids,
              LAMBDA id : \E i \in 1..Len(AllPageElements(presentation)) :
                              AllPageElements(presentation)[i].objectId = id)

\* The reference rectangle (x, y, width, height): the first or the last located
\* element, or the slide bounds (0, 0, W, H).
ReferenceBounds ==
    CASE call.reference = "first" -> BoundsById(AlignedIds[1])
      [] call.reference = "last" -> BoundsById(AlignedIds[Len(AlignedIds)])
      [] OTHER -> << 0, 0, PageSlideSize(presentation).width_emu,
                     PageSlideSize(presentation).height_emu >>

Aligned ==
    /\ Returned("align_elements")
    /\ "elements" \in DOMAIN result.value

\* C16: align_elements computes each element's new coordinate on the aligned
\* axis from the reference (first element, last element, or the slide bounds
\* (0, 0, W, H)): left / top copies the reference's leading edge, right / bottom
\* makes the element's trailing edge equal the reference's trailing edge, and
\* center / middle sets the position to (reference position + reference extent
\* div 2) - (element extent div 2), so that position + extent div 2 is the
\* reference's for every aligned element; the other axis keeps its coordinate.
C16_AlignToReference ==
    Aligned =>
        /\ Len(batches) = 1 /\ Len(batches[1]) = Len(AlignedIds)
        /\ \A i \in 1..Len(AlignedIds) :
              LET request == batches[1][i].updatePageElementTransform
                  new_x == request.transform.translateX
                  new_y == request.transform.translateY
                  old == BoundsById(AlignedIds[i])
                  ref == ReferenceBounds
                  horizontal == call.alignment \in {"left", "center", "right"}
                  new == IF horizontal THEN new_x ELSE new_y
                  extent == IF horizontal THEN old[3] ELSE old[4]
                  ref_pos == IF horizontal THEN ref[1] ELSE ref[2]
                  ref_extent == IF horizontal THEN ref[3] ELSE ref[4]
              IN  /\ request.objectId = AlignedIds[i]
                  /\ IF horizontal THEN new_y = old[2] ELSE new_x = old[1]
                  /\ call.alignment \in {"left", "top"} => new = ref_pos
                  /\ call.alignment \in {"right", "bottom"} => new + extent = ref_pos + ref_extent
                  /\ call.alignment \in {"center", "middle"} =>
                        /\ new = (ref_pos + ref_extent \div 2) - (extent \div 2)
                        /\ new + extent \div 2 = ref_pos + ref_extent \div 2

\* e1 (6 wide) centered on the last element e3 (1001 wide at x = 13): the
\* center is 13 + 500 = 513 and e1 moves to 513 - 3 = 510.
C16_Witness ==
    /\ Aligned
    /\ call.element_ids = <<"e1", "e3">>
    /\ call.alignment = "center" /\ call.reference = "last"
    /\ BoundsById("e1")[3] = 6 /\ BoundsById("e3")[3] = 1001
    /\ batches[1][1].updatePageElementTransform.transform.translateX = 510
    /\ batches[1][2].updatePageElementTransform.transform.translateX = 13
    /\ batches[1][1].updatePageElementTransform.transform.translateY = 21

\* The tool moves along the horizontal axis.
MovesHorizontally ==
    IF call.op = "distribute_elements" THEN call.direction = "horizontal"
    ELSE call.alignment \in {"left", "center", "right"}

\* C30: distribute_elements and align_elements move the located elements only,
\* and only along the operated axis: a horizontal distribution or a left,
\* center or right alignment sends each element's current y, a vertical one its
\* current x; the batch has exactly one transform request for each located
\* element and none for any other element; with reference first or last the
\* reference element is sent its own position.
C30_OnlyOperatedAxis ==
    (Distributed \/ Aligned) =>
        LET requests == [k \in 1..Len(batches[1]) |-> batches[1][k].updatePageElementTransform]
        IN  /\ \A k \in 1..Len(requests) :
                  /\ requests[k].objectId \in LocatedIds
                  /\ MovesHorizontally =>
                        requests[k].transform.translateY = BoundsById(requests[k].objectId)[2]
                  /\ ~MovesHorizontally =>
                        requests[k].transform.translateX = BoundsById(requests[k].objectId)[1]
            /\ \A id \in LocatedIds :
                  Cardinality({k \in 1..Len(requests) : requests[k].objectId = id}) = 1
            /\ (Aligned /\ call.reference \in {"first", "last"}) =>
                  LET ref == IF call.reference = "first" THEN AlignedIds[1]
                             ELSE AlignedIds[Len(AlignedIds)]
                  IN  \A k \in 1..Len(requests) :
                          requests[k].objectId = ref =>
                              /\ requests[k].transform.translateX = BoundsById(ref)[1]
                              /\ requests[k].transform.translateY = BoundsById(ref)[2]

\* ------------------------------------------------------------------ colors.py

\* Strings are sequences of one-character strings.  A channel is an exact
\* rational [num, den] with den > 0.

HexDigitsUpper == <<"0", "1", "2", "3", "4", "5", "6", "7", "8", "9", "A", "B", "C", "D", "E", "F">>
HexDigitsLower == <<"0", "1", "2", "3", "4", "5", "6", "7", "8", "9", "a", "b", "c", "d", "e", "f">>

IsHexDigit(c) == \E i \in 1..16 : HexDigitsUpper[i] = c \/ HexDigitsLower[i] = c

HexDigitValue(c) == (CHOOSE i \in 1..16 : HexDigitsUpper[i] = c \/ HexDigitsLower[i] = c) - 1

Whitespace == {" ", "\t", "\n", "\r"}

\* str.lstrip(ch): every leading ch is removed.
RECURSIVE LStrip(_, _)
LStrip(str, ch) == IF str # <<>> /\ Head(str) = ch THEN LStrip(Tail(str), ch) ELSE str

RECURSIVE StripLeadingWhitespace(_)
StripLeadingWhitespace(str) ==
    IF str # <<>> /\ Head(str) \in Whitespace THEN StripLeadingWhitespace(Tail(str)) ELSE str

RECURSIVE StripTrailingWhitespace(_)
StripTrailingWhitespace(str) ==
    IF str # <<>> /\ str[Len(str)] \in Whitespace
    THEN StripTrailingWhitespace(SubSeq(str, 1, Len(str) - 1))
    ELSE str

RECURSIVE HexNumber(_)
HexNumber(digits) ==
    IF digits = <<>> THEN 0
    ELSE 16 * HexNumber(SubSeq(digits, 1, Len(digits) - 1)) + HexDigitValue(digits[Len(digits)])

\* int(text, 16) on text of at most two characters: surrounding whitespace is
\* dropped, one sign is accepted, and what is left must be one or two hex
\* digits ("0x" and "_" need a third character to be accepted).
IntBase16(text) ==
    LET stripped == StripTrailingWhitespace(StripLeadingWhitespace(text))
        signed == stripped # <<>> /\ Head(stripped) \in {"+", "-"}
        digits == IF signed THEN Tail(stripped) ELSE stripped
        valid == digits # <<>> /\ \A i \in 1..Len(digits) : IsHexDigit(digits[i])
    IN  IF ~valid THEN [ok |-> FALSE]
        ELSE [ok |-> TRUE,
              value |-> IF signed /\ Head(stripped) = "-" THEN -HexNumber(digits)
                        ELSE HexNumber(digits)]

InvalidHexColor == [status |-> "raised", error |-> "ValueError", message |-> "Invalid hex color"]

\* A plausible slip: the shorthand repeated as a whole ("abc" read as "abcabc")
\* instead of digit by digit.
hex_to_rgb_repeat(hex_color) ==
    LET stripped == LStrip(hex_color, "#")
        expanded == IF Len(stripped) = 3 THEN stripped \o stripped ELSE stripped
        r == IntBase16(SubSeq(expanded, 1, 2))
        g == IntBase16(SubSeq(expanded, 3, 4))
        b == IntBase16(SubSeq(expanded, 5, 6))
    IN  IF Len(expanded) # 6 THEN InvalidHexColor
        ELSE IF ~r.ok \/ ~g.ok \/ ~b.ok THEN InvalidHexColor
        ELSE [status |-> "ok",
              value |-> [red |-> [num |-> r.value, den |-> 255],
                         green |-> [num |-> g.value, den |-> 255],
                         blue |-> [num |-> b.value, den |-> 255]]]

hex_to_rgb(hex_color) ==
    LET stripped == LStrip(hex_color, "#")
        expanded == IF Len(stripped) = 3
                    THEN <<stripped[1], stripped[1], stripped[2], stripped[2],
                           stripped[3], stripped[3]>>
                    ELSE stripped
        r == IntBase16(SubSeq(expanded, 1, 2))
        g == IntBase16(SubSeq(expanded, 3, 4))
        b == IntBase16(SubSeq(expanded, 5, 6))
    IN  IF Len(expanded) # 6 THEN InvalidHexColor
        ELSE IF ~r.ok \/ ~g.ok \/ ~b.ok THEN InvalidHexColor
        ELSE [status |-> "ok",
              value |-> [red |-> [num |-> r.value, den |-> 255],
                         green |-> [num |-> g.value, den |-> 255],
                         blue |-> [num |-> b.value, den |-> 255]]]

\* Python's round(): to the nearest integer, a tie to the even one.  den > 0.
RoundHalfEven(num, den) ==
    LET q == num \div den
        twice == 2 * (num - q * den)
    IN  IF twice < den THEN q
        ELSE IF twice > den THEN q + 1
        ELSE IF q % 2 = 0 THEN q ELSE q + 1

\* A plausible slip: int(x * 255) without round().
ScaleChannel_trunc(channel) == TruncDiv(channel.num * 255, channel.den)

\* int(round(channel * 255))
ScaleChannel(channel) == RoundHalfEven(channel.num * 255, channel.den)

RECURSIVE HexUpper(_)
HexUpper(n) ==
    IF n < 16 THEN <<HexDigitsUpper[n + 1]>>
    ELSE HexUpper(n \div 16) \o <<HexDigitsUpper[(n % 16) + 1]>>

\* A plausible slip: the format {:X}, which does not pad to two digits.
Format02X_nopad(n) == HexUpper(n)

\* A plausible slip: the format {:02x}.
Format02X_lower(n) ==
    IF n < 16 THEN <<"0", HexDigitsLower[n + 1]>>
    ELSE <<HexDigitsLower[(n \div 16) + 1], HexDigitsLower[(n % 16) + 1]>>

\* The format {:02X} of a non-negative integer: at least two uppercase digits.
Format02X(n) == IF n < 16 THEN <<"0">> \o HexUpper(n) ELSE HexUpper(n)

Zero == [num |-> 0, den |-> 1]

InRange01(channel) == 0 <= channel.num /\ channel.num <= channel.den

rgb_to_hex(rgb) ==
    LET r == Get(rgb, "red", Zero)
        g == Get(rgb, "green", Zero)
        b == Get(rgb, "blue", Zero)
    IN  IF ~InRange01(r) \/ ~InRange01(g) \/ ~InRange01(b)
        THEN [status |-> "raised", error |-> "ValueError", message |-> "out of range [0, 1]"]
        ELSE [status |-> "ok",
              value |-> <<"#">> \o Format02X(ScaleChannel(r)) \o Format02X(ScaleChannel(g))
                               \o Format02X(ScaleChannel(b))]

\* ---- the arguments tried

MaxHexLen == 6
MaxOver == 1

\* A hex digit, a letter that is none, the prefix, a sign and a blank.
HexAlphabet == {"#", "F", "G", "-", " "}

UpperDigitSet == {HexDigitsUpper[i] : i \in 1..16}
SampleBytes == { <<"0", "0">>, <<"F", "F">>, <<"A", "A">>, <<"B", "B">>, <<"5", "7">> }

\* '#' and six uppercase digits: each channel byte takes all 256 values while
\* the other two are sample bytes.
SixDigitColors ==
    UNION { { <<"#", hi, lo>> \o x \o y, <<"#">> \o x \o <<hi, lo>> \o y,
              <<"#">> \o x \o y \o <<hi, lo>> } :
            hi \in UpperDigitSet, lo \in UpperDigitSet, x \in SampleBytes, y \in SampleBytes }

HexColorArgs == SeqsUpTo(HexAlphabet, MaxHexLen) \cup SixDigitColors

\* Channel values: n / d for n from just below 0 to just above d; with
\* d = 4 * 255 the scaled values are the quarters, so every fourth is a byte and
\* every other fourth a tie between two bytes.
FineDen == 4 * 255
SweepChannels ==
    {[num |-> n, den |-> FineDen] : n \in (-MaxOver)..(FineDen + MaxOver)}
        \cup {[num |-> n, den |-> 3] : n \in (-MaxOver)..(3 + MaxOver)}
SampleChannels == {[num |-> 0, den |-> 1], [num |-> 1, den |-> 1], [num |-> 1, den |-> 3],
                   [num |-> 3, den |-> 2]}

\* The API omits a channel that is 0: a key may be missing.
Absent == [num |-> 0, den |-> 0]
OtherChannels == {Absent} \cup SampleChannels

\* The dict with the channels given; Absent leaves the key out.
RgbDict(r, g, b) ==
    CASE r # Absent /\ g # Absent /\ b # Absent -> [red |-> r, green |-> g, blue |-> b]
      [] r # Absent /\ g # Absent /\ b = Absent -> [red |-> r, green |-> g]
      [] r # Absent /\ g = Absent /\ b # Absent -> [red |-> r, blue |-> b]
      [] r # Absent /\ g = Absent /\ b = Absent -> [red |-> r]
      [] r = Absent /\ g # Absent /\ b # Absent -> [green |-> g, blue |-> b]
      [] r = Absent /\ g # Absent /\ b = Absent -> [green |-> g]
      [] r = Absent /\ g = Absent /\ b # Absent -> [blue |-> b]
      [] OTHER -> EmptyDict

\* ---- actions

CallHexToRgb ==
    /\ pc = "idle"
    /\ \E hex_color \in HexColorArgs :
          /\ call' = [op |-> "hex_to_rgb", hex_color |-> hex_color]
          /\ result' = hex_to_rgb(hex_color)
    /\ pc' = "done"
    /\ UNCHANGED <<presentation, batches, directory>>

CallRgbToHex ==
    /\ pc = "idle"
    /\ \E c \in SweepChannels, x \in OtherChannels, y \in OtherChannels, swept \in 1..3 :
          LET rgb == CASE swept = 1 -> RgbDict(c, x, y)
                       [] swept = 2 -> RgbDict(x, c, y)
                       [] OTHER -> RgbDict(x, y, c)
          IN  /\ call' = [op |-> "rgb_to_hex", rgb |-> rgb]
              /\ result' = rgb_to_hex(rgb)
    /\ pc' = "done"
    /\ UNCHANGED <<presentation, batches, directory>>

\* TestRoundtrip.test_hex_roundtrip: rgb_to_hex(hex_to_rgb(color)).
test_hex_roundtrip ==
    /\ pc = "idle"
    /\ \E color \in SixDigitColors :
          LET rgb == hex_to_rgb(color)
          IN  /\ call' = [op |-> "test_hex_roundtrip", color |-> color]
              /\ result' = IF rgb.status = "ok" THEN rgb_to_hex(rgb.value) ELSE rgb
    /\ pc' = "done"
    /\ UNCHANGED <<presentation, batches, directory>>

\* Hex digits of both cases.
AnyCaseDigitSet == UpperDigitSet \cup {HexDigitsLower[i] : i \in 11..16}

\* TestHexToRgb.test_shorthand: hex_to_rgb of a 3-digit form and of the 6-digit
\* form with every digit doubled.
test_shorthand ==
    /\ pc = "idle"
    /\ \E a \in AnyCaseDigitSet, b \in AnyCaseDigitSet, c \in AnyCaseDigitSet, prefix \in {<<>>, <<"#">>} :
          /\ call' = [op |-> "test_shorthand", short |-> prefix \o <<a, b, c>>,
                      long |-> <<"#", a, a, b, b, c, c>>]
          /\ result' = [status |-> "ok",
                        value |-> [short |-> hex_to_rgb(prefix \o <<a, b, c>>),
                                   long |-> hex_to_rgb(<<"#", a, a, b, b, c, c>>)]]
    /\ pc' = "done"
    /\ UNCHANGED <<presentation, batches, directory>>

NextColors == CallHexToRgb \/ CallRgbToHex \/ test_hex_roundtrip \/ test_shorthand

SpecColors == InitPure /\ [][NextColors]_vars

\* ---- claims

\* After at most one leading '#', three or six hex digits and nothing else.
WellFormedHexColor(str) ==
    LET digits == IF str # <<>> /\ Head(str) = "#" THEN Tail(str) ELSE str
    IN  /\ Len(digits) \in {3, 6}
        /\ \A i \in 1..Len(digits) : IsHexDigit(digits[i])

\* C7: hex_to_rgb succeeds exactly on the strings that, after one optional
\* leading '#', are 3 or 6 hex digits; every other input (another length, a
\* sign, a space, a second '#') raises ValueError and returns no colour.
C7_DecodeAcceptsExactlyHexColors ==
    (pc = "done" /\ call.op = "hex_to_rgb") =>
        (result.status = "ok" <=> WellFormedHexColor(call.hex_color))

\* The value of an uppercase hex digit.
UpperValue(c) == (CHOOSE i \in 1..16 : HexDigitsUpper[i] = c) - 1

\* The byte written at characters at and at + 1 of an encoded colour.
EncodedByte(str, at) == 16 * UpperValue(str[at]) + UpperValue(str[at + 1])

\* b is num / den * 255 rounded to a nearest integer.
IsNearestByte(b, channel) ==
    /\ b \in 0..255
    /\ 2 * Abs(channel.num * 255 - b * channel.den) <= channel.den

ChannelOf(rgb, key) == Get(rgb, key, Zero)

AllInRange(rgb) ==
    \A key \in {"red", "green", "blue"} :
        0 <= ChannelOf(rgb, key).num /\ ChannelOf(rgb, key).num <= ChannelOf(rgb, key).den

\* C8: rgb_to_hex raises ValueError iff some channel is outside [0, 1];
\* otherwise it returns '#' and three two-digit uppercase hex bytes, each the
\* channel times 255 rounded to the nearest integer (0 gives 00, 1 gives FF).
C8_EncodeRangeAndRounding ==
    (pc = "done" /\ call.op = "rgb_to_hex") =>
        /\ result.status = "raised" <=> ~AllInRange(call.rgb)
        /\ result.status = "ok" =>
              /\ Len(result.value) = 7
              /\ result.value[1] = "#"
              /\ \A i \in 2..7 : result.value[i] \in UpperDigitSet
              /\ IsNearestByte(EncodedByte(result.value, 2), ChannelOf(call.rgb, "red"))
              /\ IsNearestByte(EncodedByte(result.value, 4), ChannelOf(call.rgb, "green"))
              /\ IsNearestByte(EncodedByte(result.value, 6), ChannelOf(call.rgb, "blue"))
              /\ \A k \in 1..3 :
                    LET c == ChannelOf(call.rgb, <<"red", "green", "blue">>[k])
                    IN  /\ c.num = 0 => EncodedByte(result.value, 2 * k) = 0
                        /\ c.num = c.den => EncodedByte(result.value, 2 * k) = 255

\* red = 383/1020 scales to 95.75 and is written 60 (96), green is missing and
\* written 00, blue = 1 is written FF.
C8_Witness ==
    /\ pc = "done" /\ call.op = "rgb_to_hex"
    /\ call.rgb = [red |-> [num |-> 383, den |-> FineDen], blue |-> [num |-> 1, den |-> 1]]
    /\ result = [status |-> "ok", value |-> <<"#", "6", "0", "0", "0", "F", "F">>]

\* C9: for every string of '#' and six uppercase hex digits,
\* rgb_to_hex(hex_to_rgb(s)) is s.
C9_HexRoundTrip ==
    (pc = "done" /\ call.op = "test_hex_roundtrip") =>
        /\ Len(call.color) = 7 /\ call.color[1] = "#"
        /\ \A i \in 2..7 : call.color[i] \in UpperDigitSet
        /\ result.status = "ok"
        /\ result.value = call.color

C9_Witness ==
    /\ pc = "done" /\ call.op = "test_hex_roundtrip"
    /\ call.color = <<"#", "A", "A", "B", "B", "C", "C">>
    /\ result = [status |-> "ok", value |-> <<"#", "A", "A", "B", "B", "C", "C">>]

\* |a - b| <= 1/255 for the rationals a and b.
Within255th(a, b) == 255 * Abs(a.num * b.den - b.num * a.den) <= a.den * b.den

\* C10: for every triple with all channels in [0, 1], rgb_to_hex succeeds,
\* hex_to_rgb of its result succeeds, and each decoded channel is within 1/255
\* of the original.
C10_RgbRoundTrip ==
    (pc = "done" /\ call.op = "rgb_to_hex" /\ AllInRange(call.rgb)) =>
        /\ result.status = "ok"
        /\ LET back == hex_to_rgb(result.value)
           IN  /\ back.status = "ok"
               /\ \A key \in {"red", "green", "blue"} :
                     Within255th(back.value[key], ChannelOf(call.rgb, key))

\* red = 3/1020 is no byte: it is written 01 and decoded as 1/255.
C10_Witness ==
    /\ pc = "done" /\ call.op = "rgb_to_hex" /\ AllInRange(call.rgb)
    /\ ChannelOf(call.rgb, "red") = [num |-> 3, den |-> FineDen]
    /\ result.status = "ok"
    /\ hex_to_rgb(result.value).value.red = [num |-> 1, den |-> 255]
    /\ ChannelOf(call.rgb, "green") = [num |-> 1, den |-> 3]

\* C11: for every three hex digits a, b, c the 3-digit form "abc", with or
\* without the leading '#', decodes to the same colour as "#aabbcc": each
\* channel is 17 times its digit over 255; so "F00" decodes as "#FF0000".
C11_ShorthandExpansion ==
    Returned("test_shorthand") =>
        LET digits == LStrip(call.short, "#")
        IN  /\ result.value.short.status = "ok"
            /\ result.value.short = result.value.long
            /\ result.value.short.value =
                  [red |-> [num |-> 17 * HexDigitValue(digits[1]), den |-> 255],
                   green |-> [num |-> 17 * HexDigitValue(digits[2]), den |-> 255],
                   blue |-> [num |-> 17 * HexDigitValue(digits[3]), den |-> 255]]

\* "F00" without prefix decodes to pure red, as "#FF0000" does.
C11_Witness ==
    /\ Returned("test_shorthand")
    /\ call.short = <<"F", "0", "0">>
    /\ call.long = <<"#", "F", "F", "0", "0", "0", "0">>
    /\ result.value.long.status = "ok"
    /\ result.value.short.value.red = [num |-> 255, den |-> 255]
    /\ result.value.short.value.green = [num |-> 0, den |-> 255]

\* ------------------------------------------------------------------ content.py

\* A text is a sequence of pieces; joining inserts the separator between them.
RECURSIVE JoinWith(_, _)
JoinWith(items, sep) ==
    IF items = <<>> THEN <<>>
    ELSE IF Len(items) = 1 THEN Head(items)
    ELSE Head(items) \o <<sep>> \o JoinWith(Tail(items), sep)

\* "\n".join(str(item) for item in new_text) for a list, str(new_text) otherwise.
NormalizeText(new_text) ==
    IF new_text.kind = "list" THEN JoinWith(new_text.items, "\n") ELSE new_text.text

\* str.strip()
Strip(str) == StripTrailingWhitespace(StripLeadingWhitespace(str))

\* A plausible slip: the search stopped at the first match.
_find_placeholder_elements_first_only(slide, placeholder_type) ==
    LET page_elements == Get(slide, "pageElements", <<>>)
        type_of(element) ==
            Get(Get(Get(element, "shape", EmptyDict), "placeholder", EmptyDict), "type", None)
        matching == SelectSeq(page_elements, LAMBDA element : type_of(element) = placeholder_type)
        text_elements(element) ==
            Get(Get(Get(element, "shape", EmptyDict), "text", EmptyDict), "textElements", <<>>)
        current_text(element) ==
            FlattenSeq([i \in 1..Len(text_elements(element)) |->
                Get(Get(text_elements(element)[i], "textRun", EmptyDict), "content", <<>>)])
    IN  [i \in 1..(IF matching = <<>> THEN 0 ELSE 1) |->
            [object_id |-> matching[i].objectId,
             placeholder_type |-> placeholder_type,
             current_text |-> Strip(current_text(matching[i]))]]

\* The matches of one placeholder type on a slide, in slide order.
_find_placeholder_elements(slide, placeholder_type) ==
    LET page_elements == Get(slide, "pageElements", <<>>)
        type_of(element) ==
            Get(Get(Get(element, "shape", EmptyDict), "placeholder", EmptyDict), "type", None)
        matching == SelectSeq(page_elements, LAMBDA element : type_of(element) = placeholder_type)
        text_elements(element) ==
            Get(Get(Get(element, "shape", EmptyDict), "text", EmptyDict), "textElements", <<>>)
        current_text(element) ==
            FlattenSeq([i \in 1..Len(text_elements(element)) |->
                Get(Get(text_elements(element)[i], "textRun", EmptyDict), "content", <<>>)])
    IN  [i \in 1..Len(matching) |->
            [object_id |-> matching[i].objectId,
             placeholder_type |-> placeholder_type,
             current_text |-> Strip(current_text(matching[i]))]]

\* A plausible slip: the pair in the wrong order.
_build_text_replacement_requests_swapped(object_id, new_text) ==
    << [insertText |-> [objectId |-> object_id, text |-> new_text, insertionIndex |-> 0]],
       [deleteText |-> [objectId |-> object_id, textRange |-> [type |-> "ALL"]]] >>

_build_text_replacement_requests(object_id, new_text) ==
    << [deleteText |-> [objectId |-> object_id, textRange |-> [type |-> "ALL"]]],
       [insertText |-> [objectId |-> object_id, text |-> new_text, insertionIndex |-> 0]] >>

\* The requests of one placeholder type: a pair per matching element.
ReplacementRequests(slide, placeholder_type, new_text) ==
    LET elements == _find_placeholder_elements(slide, placeholder_type)
    IN  FlattenSeq([i \in 1..Len(elements) |->
            _build_text_replacement_requests(elements[i].object_id, NormalizeText(new_text))])

\* The requests of a whole content mapping, in the mapping's order.
ContentRequests(slide, items) ==
    FlattenSeq([i \in 1..Len(items) |-> ReplacementRequests(slide, items[i].key, items[i].value)])

\* A plausible slip: the counter stepped once per content key that matched.
MatchCount_per_key(slide, items) ==
    SumSeq([i \in 1..Len(items) |->
        IF Len(_find_placeholder_elements(slide, items[i].key)) > 0 THEN 1 ELSE 0])

\* The number of elements the content mapping matches (one per loop iteration
\* that extends the requests).
MatchCount(slide, items) ==
    SumSeq([i \in 1..Len(items) |-> Len(_find_placeholder_elements(slide, items[i].key))])

\* service.get_page: the slide with this id, if the presentation has one.
HasPage(pres, slide_id) == \E i \in 1..Len(pres.slides) : pres.slides[i].objectId = slide_id

GetPage(pres, slide_id) ==
    pres.slides[CHOOSE i \in 1..Len(pres.slides) : pres.slides[i].objectId = slide_id]

\* if requests: await service.batch_update(...)
SubmitIfAny(requests) == IF requests = <<>> THEN <<>> ELSE <<requests>>

\* What update_slide_content submits and returns.
UpdateSlideOutcome(pres, slide_id, items) ==
    IF ~HasPage(pres, slide_id)
    THEN [batches |-> <<>>,
          result |-> [status |-> "raised", error |-> "HttpError", message |-> "get_page failed"]]
    ELSE LET slide == GetPage(pres, slide_id)
             found(i) == _find_placeholder_elements(slide, items[i].key) # <<>>
             keys == [i \in 1..Len(items) |-> items[i].key]
         IN  [batches |-> SubmitIfAny(ContentRequests(slide, items)),
              result |-> [status |-> "ok",
                          value |-> [updated |-> SelectSeq(keys, LAMBDA k :
                                         \E i \in 1..Len(items) : items[i].key = k /\ found(i)),
                                     not_found |-> SelectSeq(keys, LAMBDA k :
                                         \E i \in 1..Len(items) : items[i].key = k /\ ~found(i))]]]

\* slide_map: the last slide with an objectId wins.
InSlideMap(pres, slide_id) ==
    \E i \in 1..Len(pres.slides) : Get(pres.slides[i], "objectId", "") = slide_id

SlideMapGet(pres, slide_id) ==
    LET at == {i \in 1..Len(pres.slides) : Get(pres.slides[i], "objectId", "") = slide_id}
    IN  pres.slides[CHOOSE i \in at : \A j \in at : j <= i]

NoProgress == [requests |-> <<>>, slides_updated |-> 0, placeholders_updated |-> 0, errors |-> <<>>]

\* A plausible slip: break for continue, so that a missing slide ends the loop.
RECURSIVE ProcessSlideSpecs_abort(_, _, _)
ProcessSlideSpecs_abort(pres, slides, acc) ==
    IF slides = <<>> THEN acc
    ELSE LET slide_spec == Head(slides)
             slide_id == Get(slide_spec, "slide_id", None)
         IN  IF slide_id = None \/ slide_id = ""
             THEN [acc EXCEPT !.errors = Append(@, <<"Missing slide_id in slide specification">>)]
             ELSE IF ~InSlideMap(pres, slide_id)
             THEN [acc EXCEPT !.errors = Append(@, <<"Slide ", slide_id, " not found in presentation">>)]
             ELSE LET slide == SlideMapGet(pres, slide_id)
                      matched == MatchCount(slide, slide_spec.content)
                  IN  ProcessSlideSpecs_abort(pres, Tail(slides),
                          [acc EXCEPT !.requests = @ \o ContentRequests(slide, slide_spec.content),
                                      !.placeholders_updated = @ + matched,
                                      !.slides_updated = IF matched > 0 THEN @ + 1 ELSE @])

\* The loop over the slide specifications.
RECURSIVE ProcessSlideSpecs(_, _, _)
ProcessSlideSpecs(pres, slides, acc) ==
    IF slides = <<>> THEN acc
    ELSE LET slide_spec == Head(slides)
             slide_id == Get(slide_spec, "slide_id", None)
         IN  IF slide_id = None \/ slide_id = ""
             THEN ProcessSlideSpecs(pres, Tail(slides),
                      [acc EXCEPT !.errors = Append(@, <<"Missing slide_id in slide specification">>)])
             ELSE IF ~InSlideMap(pres, slide_id)
             THEN ProcessSlideSpecs(pres, Tail(slides),
                      [acc EXCEPT !.errors = Append(@, <<"Slide ", slide_id, " not found in presentation">>)])
             ELSE LET slide == SlideMapGet(pres, slide_id)
                      matched == MatchCount(slide, slide_spec.content)
                  IN  ProcessSlideSpecs(pres, Tail(slides),
                          [acc EXCEPT !.requests = @ \o ContentRequests(slide, slide_spec.content),
                                      !.placeholders_updated = @ + matched,
                                      !.slides_updated = IF matched > 0 THEN @ + 1 ELSE @])

\* A plausible slip: one batch_update per slide specification.
SubmitPresentationContent_per_slide(pres, slides) ==
    SelectSeq([i \in 1..Len(slides) |-> ProcessSlideSpecs(pres, <<slides[i]>>, NoProgress).requests],
              LAMBDA requests : requests # <<>>)

\* The batches update_presentation_content submits: all requests at once.
SubmitPresentationContent(pres, slides) ==
    SubmitIfAny(ProcessSlideSpecs(pres, slides, NoProgress).requests)

\* What update_presentation_content submits and returns.
UpdatePresentationOutcome(pres, slides) ==
    LET done == ProcessSlideSpecs(pres, slides, NoProgress)
    IN  [batches |-> SubmitPresentationContent(pres, slides),
         result |-> [status |-> "ok",
                     value |-> [slides_updated |-> done.slides_updated,
                                placeholders_updated |-> done.placeholders_updated,
                                errors |-> done.errors]]]

\* A plausible slip: the request built even when no property is specified.
_build_style_request_always(object_id, font_size_pt, bold, italic, font_family, color) ==
    LET rgb == hex_to_rgb(color.value)
        fields ==
            (IF font_size_pt # Unset THEN << <<"fontSize">> >> ELSE <<>>)
            \o (IF bold # Unset THEN << <<"bold">> >> ELSE <<>>)
            \o (IF italic # Unset THEN << <<"italic">> >> ELSE <<>>)
            \o (IF font_family # Unset THEN << <<"fontFamily">> >> ELSE <<>>)
            \o (IF color # Unset THEN << <<"foregroundColor">> >> ELSE <<>>)
    IN  IF color # Unset /\ rgb.status = "raised" THEN rgb
        ELSE [status |-> "ok",
              value |-> << [updateTextStyle |->
                              [objectId |-> object_id, style |-> EmptyDict,
                               fields |-> JoinWith(fields, ","),
                               textRange |-> [type |-> "ALL"]]] >>]

\* The updateTextStyle request with only the specified properties: <<request>>,
\* or <<>> for None.  hex_to_rgb may raise.  The field mask is the names joined
\* with commas, a text in pieces.
_build_style_request(object_id, font_size_pt, bold, italic, font_family, color) ==
    LET rgb == hex_to_rgb(color.value)
        style ==
            (IF font_size_pt # Unset
             THEN [fontSize |-> [magnitude |-> font_size_pt.value, unit |-> "PT"]]
             ELSE EmptyDict)
            @@ (IF bold # Unset THEN [bold |-> bold.value] ELSE EmptyDict)
            @@ (IF italic # Unset THEN [italic |-> italic.value] ELSE EmptyDict)
            @@ (IF font_family # Unset THEN [fontFamily |-> font_family.value] ELSE EmptyDict)
            @@ (IF color # Unset
                THEN [foregroundColor |-> [opaqueColor |-> [rgbColor |-> rgb.value]]]
                ELSE EmptyDict)
        fields ==
            (IF font_size_pt # Unset THEN << <<"fontSize">> >> ELSE <<>>)
            \o (IF bold # Unset THEN << <<"bold">> >> ELSE <<>>)
            \o (IF italic # Unset THEN << <<"italic">> >> ELSE <<>>)
            \o (IF font_family # Unset THEN << <<"fontFamily">> >> ELSE <<>>)
            \o (IF color # Unset THEN << <<"foregroundColor">> >> ELSE <<>>)
    IN  IF color # Unset /\ rgb.status = "raised" THEN rgb
        ELSE IF fields = <<>> THEN [status |-> "ok", value |-> <<>>]
        ELSE [status |-> "ok",
              value |-> << [updateTextStyle |->
                              [objectId |-> object_id, style |-> style,
                               fields |-> JoinWith(fields, ","),
                               textRange |-> [type |-> "ALL"]]] >>]

\* The updateParagraphStyle request: <<request>>, or <<>> for None.
_build_paragraph_style_request(object_id, alignment) ==
    IF alignment = Unset THEN <<>>
    ELSE << [updateParagraphStyle |->
                [objectId |-> object_id, style |-> [alignment |-> alignment.value],
                 fields |-> <<"alignment">>, textRange |-> [type |-> "ALL"]]] >>

\* What apply_text_style submits and returns.  slide_ids is Unset or a list.
ApplyTextStyleOutcome(pres, placeholder_type, slide_ids, font_size_pt, bold, italic, font_family, color, alignment) ==
    LET slides == SelectSeq(pres.slides,
                      LAMBDA slide :
                          \/ slide_ids = Unset
                          \/ \E k \in 1..Len(slide_ids.value) :
                                slide_ids.value[k] = Get(slide, "objectId", ""))
        elements_of(s) == _find_placeholder_elements(slides[s], placeholder_type)
        elements == FlattenSeq([s \in 1..Len(slides) |-> elements_of(s)])
        style_req(e) == _build_style_request(elements[e].object_id, font_size_pt, bold,
                                             italic, font_family, color)
        para_req(e) == _build_paragraph_style_request(elements[e].object_id, alignment)
        requests == FlattenSeq([e \in 1..Len(elements) |-> style_req(e).value \o para_req(e)])
        elements_styled ==
            Cardinality({e \in 1..Len(elements) : style_req(e).value \o para_req(e) # <<>>})
        affected == SelectSeq([s \in 1..Len(slides) |-> s], LAMBDA s : elements_of(s) # <<>>)
        slides_affected == [k \in 1..Len(affected) |-> Get(slides[affected[k]], "objectId", "")]
    IN  IF \E e \in 1..Len(elements) : style_req(e).status = "raised"
        THEN [batches |-> <<>>, result |-> InvalidHexColor]
        ELSE [batches |-> SubmitIfAny(requests),
              result |-> [status |-> "ok",
                          value |-> [elements_styled |-> elements_styled,
                                     slides_affected |-> slides_affected]]]

\* ---- the presentations and arguments tried

MaxBodies == 2
MaxSlideSpecs == 3

PlaceholderShape(id, type, text_elements) ==
    [objectId |-> id,
     shape |-> [shapeType |-> "TEXT_BOX", placeholder |-> [type |-> type],
                text |-> [textElements |-> text_elements]]]

OldText == << [paragraphMarker |-> [style |-> "p"]],
              [textRun |-> [content |-> <<" ", "Old">>]],
              [textRun |-> [content |-> <<"text", "\n">>]] >>

BodyNames == <<"b1", "b2", "b3", "b4">>

\* The text of the k-th BODY box, in two runs: each box has its own.
BodyText(k) == << [paragraphMarker |-> [style |-> "p"]],
                  [textRun |-> [content |-> <<"Body ", "of ">>]],
                  [textRun |-> [content |-> <<BodyNames[k], "\n">>]] >>

\* Slide p1: a TITLE, nb BODY boxes and an image.  Slide p2: a TITLE, a
\* SUBTITLE and a shape that is no placeholder.
ContentPresentation(nb) ==
    [presentationId |-> "deck",
     slides |-> << [objectId |-> "p1",
                    pageElements |-> << PlaceholderShape("t1", "TITLE", OldText) >>
                        \o [k \in 1..nb |-> PlaceholderShape(BodyNames[k], "BODY", BodyText(k))]
                        \o << [objectId |-> "i1", image |-> [contentUrl |-> "url"]] >>],
                   [objectId |-> "p2",
                    pageElements |-> << PlaceholderShape("t2", "TITLE", <<>>),
                                        PlaceholderShape("s2", "SUBTITLE", OldText),
                                        [objectId |-> "x2", shape |-> [shapeType |-> "RECTANGLE"]] >>] >>]

ContentPresentations == {ContentPresentation(nb) : nb \in 0..MaxBodies}

Str(text) == [kind |-> "str", text |-> text]
List(items) == [kind |-> "list", items |-> items]

\* Content mappings, in iteration order: a TITLE; a BODY given as a list, then
\* a TITLE; a SUBTITLE.
Contents ==
    { << [key |-> "TITLE", value |-> Str(<<"Hi">>)] >>,
      << [key |-> "BODY", value |-> List(<< <<"Point 1">>, <<"Point 2">> >>)],
         [key |-> "TITLE", value |-> Str(<<"Hello">>)] >>,
      << [key |-> "SUBTITLE", value |-> Str(<<"Sub">>)] >> }

\* Slide specifications: of a slide of the document, of a slide that is not in
\* it (p9), or without slide_id.
SlideSpecs ==
    {[content |-> c] : c \in Contents}
        \cup {[slide_id |-> id, content |-> c] : id \in {"p1", "p2", "p9"}, c \in Contents}

\* ---- actions

update_slide_content ==
    /\ pc = "idle"
    /\ \E slide_id \in {"p1", "p2", "p9"}, content \in Contents :
          LET out == UpdateSlideOutcome(presentation, slide_id, content)
          IN  /\ call' = [op |-> "update_slide_content", slide_id |-> slide_id,
                          content |-> content]
              /\ batches' = out.batches
              /\ result' = out.result
    /\ pc' = "done"
    /\ UNCHANGED <<presentation, directory>>

update_presentation_content ==
    /\ pc = "idle"
    /\ \E slides \in SeqsUpTo(SlideSpecs, MaxSlideSpecs) :
          LET out == UpdatePresentationOutcome(presentation, slides)
          IN  /\ call' = [op |-> "update_presentation_content", slides |-> slides]
              /\ batches' = out.batches
              /\ result' = out.result
    /\ pc' = "done"
    /\ UNCHANGED <<presentation, directory>>

PlaceholderTypes == {"TITLE", "SUBTITLE", "BODY", "FOOTER"}

\* _find_placeholder_elements on one slide of the presentation, as the content
\* tools call it.
CallFindPlaceholderElements ==
    /\ pc = "idle"
    /\ \E s \in 1..Len(presentation.slides), placeholder_type \in PlaceholderTypes :
          /\ call' = [op |-> "_find_placeholder_elements", slide |-> presentation.slides[s],
                      placeholder_type |-> placeholder_type]
          /\ result' = [status |-> "ok",
                        value |-> _find_placeholder_elements(presentation.slides[s],
                                                             placeholder_type)]
    /\ pc' = "done"
    /\ UNCHANGED <<presentation, batches, directory>>

\* Style arguments: each left out or given, with the values that are falsy in
\* Python (0, False, "") among those given, and a color that is no hex color.
SlideIdArgs == {Unset, Given(<<>>), Given(<<"p1">>), Given(<<"p2", "p9">>)}
FontSizeArgs == {Unset, Given(0), Given(12)}
BoolArgs == {Unset, Given(FALSE), Given(TRUE)}
FontFamilyArgs == {Unset, Given(""), Given("Arial")}
ColorArgs == {Unset, Given(<<"#", "F", "F", "0", "0", "0", "0">>), Given(<<"r", "e", "d">>)}
AlignmentArgs == {Unset, Given("CENTER")}

apply_text_style ==
    /\ pc = "idle"
    /\ \E placeholder_type \in PlaceholderTypes, slide_ids \in SlideIdArgs,
          font_size_pt \in FontSizeArgs, bold \in BoolArgs, italic \in BoolArgs,
          font_family \in FontFamilyArgs, color \in ColorArgs, alignment \in AlignmentArgs :
          LET out == ApplyTextStyleOutcome(presentation, placeholder_type, slide_ids,
                                           font_size_pt, bold, italic, font_family,
                                           color, alignment)
          IN  /\ call' = [op |-> "apply_text_style", placeholder_type |-> placeholder_type,
                          slide_ids |-> slide_ids, font_size_pt |-> font_size_pt,
                          bold |-> bold, italic |-> italic, font_family |-> font_family,
                          color |-> color, alignment |-> alignment]
              /\ batches' = out.batches
              /\ result' = out.result
    /\ pc' = "done"
    /\ UNCHANGED <<presentation, directory>>

InitContent ==
    /\ pc = "idle"
    /\ call = NoCall
    /\ presentation \in ContentPresentations
    /\ batches = <<>>
    /\ directory = NoFiles
    /\ result = NoResult

NextContent ==
    update_slide_content \/ update_presentation_content \/ CallFindPlaceholderElements

SpecContent == InitContent /\ [][NextContent]_vars

\* The styling tool, on the same presentations.
NextStyle == apply_text_style

SpecStyle == InitContent /\ [][NextStyle]_vars

\* ---- claims

\* The slide specifications of the finished content update (update_slide_content
\* has one: its slide and its content).
UpdateSpecs ==
    IF call.op = "update_slide_content"
    THEN << [slide_id |-> call.slide_id, content |-> call.content] >>
    ELSE call.slides

ContentUpdateReturned ==
    /\ pc = "done"
    /\ call.op \in {"update_slide_content", "update_presentation_content"}
    /\ result.status = "ok"

\* The requests submitted (none when no batch was).
SubmittedRequests == IF batches = <<>> THEN <<>> ELSE batches[1]

\* The slide a specification names, when the document has it.
NamesSlide(slide_spec) ==
    /\ "slide_id" \in DOMAIN slide_spec
    /\ \E i \in 1..Len(presentation.slides) : presentation.slides[i].objectId = slide_spec.slide_id

NamedSlide(slide_spec) ==
    presentation.slides[CHOOSE i \in 1..Len(presentation.slides) :
                            presentation.slides[i].objectId = slide_spec.slide_id]

\* The elements of a slide tagged with a placeholder category.
Tagged(slide, category) ==
    {j \in 1..Len(slide.pageElements) :
        /\ "shape" \in DOMAIN slide.pageElements[j]
        /\ "placeholder" \in DOMAIN slide.pageElements[j].shape
        /\ slide.pageElements[j].shape.placeholder.type = category}

\* The number of (specification, category, element) matches of the call.
MatchTotal ==
    SumSeq([i \in 1..Len(UpdateSpecs) |->
        IF NamesSlide(UpdateSpecs[i])
        THEN SumSeq([k \in 1..Len(UpdateSpecs[i].content) |->
                 Cardinality(Tagged(NamedSlide(UpdateSpecs[i]), UpdateSpecs[i].content[k].key))])
        ELSE 0])

IsDeleteAll(request, object_id) ==
    request = [deleteText |-> [objectId |-> object_id, textRange |-> [type |-> "ALL"]]]

IsInsertAtStart(request, object_id, text) ==
    request = [insertText |-> [objectId |-> object_id, text |-> text, insertionIndex |-> 0]]

\* Requests 2k-1 and 2k replace the text of object_id by text.
IsReplacementPair(requests, k, object_id, text) ==
    /\ 2 * k <= Len(requests)
    /\ IsDeleteAll(requests[2 * k - 1], object_id)
    /\ IsInsertAtStart(requests[2 * k], object_id, text)

\* C3: in the batch of update_slide_content and update_presentation_content
\* every matched placeholder element contributes exactly two adjacent requests,
\* a deleteText over ALL on the element and then an insertText of the new text
\* at index 0 on the same element; the batch holds exactly 2 x (number of
\* matches) requests, so every insert directly follows the delete of its element.
C3_DeleteThenInsertPairs ==
    ContentUpdateReturned =>
        LET requests == SubmittedRequests
        IN  /\ Len(batches) <= 1
            /\ Len(requests) = 2 * MatchTotal
            /\ \A k \in 1..MatchTotal :
                  \E j \in 1..Len(UpdateSpecs) :
                      /\ NamesSlide(UpdateSpecs[j])
                      /\ \E item \in {UpdateSpecs[j].content[n] : n \in 1..Len(UpdateSpecs[j].content)} :
                            \E e \in Tagged(NamedSlide(UpdateSpecs[j]), item.key) :
                                IsReplacementPair(requests, k,
                                    NamedSlide(UpdateSpecs[j]).pageElements[e].objectId,
                                    NormalizeText(item.value))
            /\ \A j \in 1..Len(UpdateSpecs) :
                  NamesSlide(UpdateSpecs[j]) =>
                      \A n \in 1..Len(UpdateSpecs[j].content) :
                          \A e \in Tagged(NamedSlide(UpdateSpecs[j]), UpdateSpecs[j].content[n].key) :
                              \E k \in 1..MatchTotal :
                                  IsReplacementPair(requests, k,
                                      NamedSlide(UpdateSpecs[j]).pageElements[e].objectId,
                                      NormalizeText(UpdateSpecs[j].content[n].value))

\* Two BODY boxes and a TITLE on p1: delete/insert for b1, b2 and t1, in the
\* mapping's order, with the list joined by newlines.
C3_Witness ==
    /\ ContentUpdateReturned
    /\ call.op = "update_slide_content" /\ call.slide_id = "p1"
    /\ Len(batches) = 1 /\ Len(batches[1]) = 6
    /\ IsReplacementPair(batches[1], 1, "b1", <<"Point 1", "\n", "Point 2">>)
    /\ IsReplacementPair(batches[1], 2, "b2", <<"Point 1", "\n", "Point 2">>)
    /\ IsReplacementPair(batches[1], 3, "t1", <<"Hello">>)
    /\ result.value = [updated |-> <<"BODY", "TITLE">>, not_found |-> <<>>]

\* The requests of one slide specification processed alone.
RequestsOfSpec(slide_spec) ==
    IF NamesSlide(slide_spec)
    THEN ContentRequests(NamedSlide(slide_spec), slide_spec.content)
    ELSE <<>>

\* C4: update_presentation_content is best-effort across slides: every
\* specification whose slide_id is not in the document adds an entry naming
\* that id to errors and contributes no requests, every specification whose
\* slide exists has its replacement requests in the submitted batch, and a
\* missing slide never ends the processing of the specifications after it.
C4_BestEffortAcrossSlides ==
    (pc = "done" /\ call.op = "update_presentation_content") =>
        /\ result.status = "ok"
        /\ SubmittedRequests =
              FlattenSeq([i \in 1..Len(call.slides) |-> RequestsOfSpec(call.slides[i])])
        /\ Len(result.value.errors) =
              Cardinality({i \in 1..Len(call.slides) : ~NamesSlide(call.slides[i])})
        /\ \A i \in 1..Len(call.slides) :
              ("slide_id" \in DOMAIN call.slides[i] /\ ~NamesSlide(call.slides[i])) =>
                  \E n \in 1..Len(result.value.errors) :
                      \E piece \in 1..Len(result.value.errors[n]) :
                          result.value.errors[n][piece] = call.slides[i].slide_id

\* p1, then the missing p9, then p2: p9 is reported and p2's title is still
\* replaced after p1's.
C4_Witness ==
    /\ pc = "done" /\ call.op = "update_presentation_content"
    /\ Len(call.slides) = 3
    /\ call.slides[2] = [slide_id |-> "p9", content |-> << [key |-> "TITLE", value |-> Str(<<"Hi">>)] >>]
    /\ result.value.errors = << <<"Slide ", "p9", " not found in presentation">> >>
    /\ Len(batches) = 1 /\ Len(batches[1]) = 4
    /\ IsReplacementPair(batches[1], 1, "t1", <<"Hi">>)
    /\ IsReplacementPair(batches[1], 2, "t2", <<"Hi">>)
    /\ result.value.slides_updated = 2

\* C5 as stated: every invocation of update_presentation_content issues
\* exactly one batch submission, also when no slide id or placeholder category
\* is found.
C5_Original_ExactlyOneBatch ==
    (pc = "done" /\ call.op = "update_presentation_content") => Len(batches) = 1

\* C5 amended: every invocation of update_presentation_content issues at most
\* one batch submission, whatever the number of slide specifications and of
\* matches: exactly one, holding all the requests, when at least one
\* placeholder matched, and none at all when nothing matched.
C5_AtMostOneBatch ==
    (pc = "done" /\ call.op = "update_presentation_content") =>
        /\ Len(batches) <= 1
        /\ Len(batches) = 1 <=> MatchTotal > 0
        /\ \A n \in 1..Len(batches) : batches[n] # <<>>

\* Three specifications on two slides, all matched: one batch of all pairs.
C5_Witness ==
    /\ pc = "done" /\ call.op = "update_presentation_content"
    /\ Len(call.slides) = 3
    /\ \A i \in 1..3 : NamesSlide(call.slides[i]) /\ RequestsOfSpec(call.slides[i]) # <<>>
    /\ call.slides[1].slide_id = "p1" /\ call.slides[2].slide_id = "p2"
    /\ result.value.slides_updated = 3
    /\ Len(batches) = 1
    /\ Len(batches[1]) = 2 * result.value.placeholders_updated
    /\ Len(batches[1]) >= 8

\* The result reports the category as not found: in not_found for
\* update_slide_content, in an entry of errors for update_presentation_content.
RecordedNotFound(category) ==
    IF call.op = "update_slide_content"
    THEN \E n \in 1..Len(result.value.not_found) : result.value.not_found[n] = category
    ELSE \E n \in 1..Len(result.value.errors) :
            \E piece \in 1..Len(result.value.errors[n]) :
                result.value.errors[n][piece] = category

\* C22: in update_slide_content and update_presentation_content every
\* requested category with no matching element on its slide is reported as not
\* found in the result, adds no request, and the other categories and slides
\* are still processed.
C22_ZeroMatchRecorded ==
    ContentUpdateReturned =>
        /\ SubmittedRequests =
              FlattenSeq([j \in 1..Len(UpdateSpecs) |-> RequestsOfSpec(UpdateSpecs[j])])
        /\ \A j \in 1..Len(UpdateSpecs) :
              NamesSlide(UpdateSpecs[j]) =>
                  \A n \in 1..Len(UpdateSpecs[j].content) :
                      Tagged(NamedSlide(UpdateSpecs[j]), UpdateSpecs[j].content[n].key) = {}
                          => RecordedNotFound(UpdateSpecs[j].content[n].key)

\* C29: the counters update_presentation_content returns agree with the batch
\* it submitted: placeholders_updated is half the number of requests,
\* slides_updated is the number of slide specifications that contributed a
\* pair, slides_updated is at most placeholders_updated, and slides_updated
\* plus the number of errors is at most the number of specifications given.
C29_CountersMatchBatch ==
    Returned("update_presentation_content") =>
        /\ 2 * result.value.placeholders_updated = Len(SubmittedRequests)
        /\ result.value.slides_updated =
              Cardinality({j \in 1..Len(call.slides) : RequestsOfSpec(call.slides[j]) # <<>>})
        /\ result.value.slides_updated <= result.value.placeholders_updated
        /\ result.value.slides_updated + Len(result.value.errors) <= Len(call.slides)

\* Three specifications: one matching a TITLE and two BODY boxes, one of a
\* slide the document lacks, one whose category matches nothing.
C29_Witness ==
    /\ Returned("update_presentation_content")
    /\ Len(call.slides) = 3
    /\ result.value.placeholders_updated = 3
    /\ result.value.slides_updated = 1
    /\ Len(result.value.errors) = 1
    /\ Len(batches[1]) = 6
    /\ \E j \in 1..3 : NamesSlide(call.slides[j]) /\ RequestsOfSpec(call.slides[j]) = <<>>

\* The k-th smallest member of a set of indexes.
KthIndex(indexes, k) == CHOOSE j \in indexes : Cardinality({i \in indexes : i < j}) = k - 1

\* The contents of an element's text runs, joined with no separator.
RunsText(element) ==
    LET text_elements == element.shape.text.textElements
    IN  FlattenSeq([i \in 1..Len(text_elements) |->
            IF "textRun" \in DOMAIN text_elements[i] THEN text_elements[i].textRun.content
            ELSE <<>>])

\* The result lists, in slide order, exactly the elements tagged with the
\* target category, each with its identifier.
FindsExactlyTheTagged ==
    LET tagged == Tagged(call.slide, call.placeholder_type)
    IN  /\ Len(result.value) = Cardinality(tagged)
        /\ \A k \in 1..Len(result.value) :
              /\ result.value[k].object_id = call.slide.pageElements[KthIndex(tagged, k)].objectId
              /\ result.value[k].placeholder_type = call.placeholder_type

\* C17 as stated: _find_placeholder_elements returns, in slide order, exactly
\* the elements whose placeholder category equals the target, each with its
\* identifier and with current text equal to the concatenation of its text
\* runs' contents, joined with no separator.
C17_Original_FindByCategory ==
    Returned("_find_placeholder_elements") =>
        /\ FindsExactlyTheTagged
        /\ \A k \in 1..Len(result.value) :
              result.value[k].current_text =
                  RunsText(call.slide.pageElements[KthIndex(Tagged(call.slide, call.placeholder_type), k)])

\* C17 amended: _find_placeholder_elements returns, in slide order, exactly
\* the elements whose placeholder category equals the target (all of them when
\* several share it, none of another category), each with its identifier and
\* with current text equal to the concatenation of its text runs' contents,
\* joined with no separator, without its leading and trailing whitespace.
C17_FindByCategory ==
    Returned("_find_placeholder_elements") =>
        /\ FindsExactlyTheTagged
        /\ \A k \in 1..Len(result.value) :
              result.value[k].current_text =
                  Strip(RunsText(call.slide.pageElements[
                            KthIndex(Tagged(call.slide, call.placeholder_type), k)]))

\* Two BODY boxes on p1: both are returned, in slide order, each with its own
\* text, the runs joined and the final newline dropped.
C17_Witness ==
    /\ Returned("_find_placeholder_elements")
    /\ call.placeholder_type = "BODY" /\ call.slide.objectId = "p1"
    /\ result.value = << [object_id |-> "b1", placeholder_type |-> "BODY",
                          current_text |-> <<"Body ", "of ", "b1">>],
                         [object_id |-> "b2", placeholder_type |-> "BODY",
                          current_text |-> <<"Body ", "of ", "b2">>] >>

\* The ids of the elements apply_text_style matches: the tagged elements of
\* the selected slides, slide by slide, in slide order.
StyleMatched ==
    LET selected(slide) ==
            \/ call.slide_ids = Unset
            \/ \E k \in 1..Len(call.slide_ids.value) : call.slide_ids.value[k] = slide.objectId
        ids_on(slide) ==
            LET tagged == Tagged(slide, call.placeholder_type)
            IN  [k \in 1..Cardinality(tagged) |-> slide.pageElements[KthIndex(tagged, k)].objectId]
    IN  FlattenSeq([s \in 1..Len(presentation.slides) |->
            IF selected(presentation.slides[s]) THEN ids_on(presentation.slides[s]) ELSE <<>>])

\* The text-style properties the call specifies, by their field names.
SpecifiedProperties ==
    {p \in {"fontSize", "bold", "italic", "fontFamily", "foregroundColor"} :
        \/ p = "fontSize" /\ call.font_size_pt # Unset
        \/ p = "bold" /\ call.bold # Unset
        \/ p = "italic" /\ call.italic # Unset
        \/ p = "fontFamily" /\ call.font_family # Unset
        \/ p = "foregroundColor" /\ call.color # Unset}

\* The requests submitted, in order.
StyleRequests == IF batches = <<>> THEN <<>> ELSE batches[1]

\* A field mask: names at the odd places, commas between them.
MaskNames(fields) == {fields[i] : i \in {j \in 1..Len(fields) : j % 2 = 1}}

IsStyleRequest(request, object_id) ==
    /\ DOMAIN request = {"updateTextStyle"}
    /\ request.updateTextStyle.objectId = object_id
    /\ MaskNames(request.updateTextStyle.fields) = SpecifiedProperties
    /\ Len(request.updateTextStyle.fields) = 2 * Cardinality(SpecifiedProperties) - 1
    /\ \A i \in 1..Len(request.updateTextStyle.fields) :
          i % 2 = 0 => request.updateTextStyle.fields[i] = ","
    /\ DOMAIN request.updateTextStyle.style = SpecifiedProperties

IsParagraphRequest(request, object_id) ==
    /\ DOMAIN request = {"updateParagraphStyle"}
    /\ request.updateParagraphStyle.objectId = object_id
    /\ request.updateParagraphStyle.fields = <<"alignment">>
    /\ request.updateParagraphStyle.style = [alignment |-> call.alignment.value]

\* C20: the batch of apply_text_style holds, for each matched element in
\* order, an updateTextStyle request iff a text-style property is specified,
\* whose field mask names exactly the specified properties, then an
\* updateParagraphStyle request iff alignment is specified; no request has an
\* empty field mask; with nothing specified no batch is submitted and
\* elements_styled is 0.  An invocation that raises (a color that is no hex
\* color) submits nothing at all.
C20_StyleRequests ==
    /\ (pc = "done" /\ call.op = "apply_text_style" /\ result.status = "raised") =>
          batches = <<>> /\ call.color # Unset
    /\ Returned("apply_text_style") =>
        LET style == IF SpecifiedProperties # {} THEN 1 ELSE 0
            per == style + (IF call.alignment # Unset THEN 1 ELSE 0)
        IN  /\ Len(batches) <= 1
            /\ batches # <<>> => batches[1] # <<>>
            /\ Len(StyleRequests) = per * Len(StyleMatched)
            /\ \A k \in 1..Len(StyleMatched) :
                  /\ style = 1 =>
                        IsStyleRequest(StyleRequests[(k - 1) * per + 1], StyleMatched[k])
                  /\ call.alignment # Unset =>
                        IsParagraphRequest(StyleRequests[k * per], StyleMatched[k])
            /\ \A i \in 1..Len(StyleRequests) :
                  \A key \in DOMAIN StyleRequests[i] : StyleRequests[i][key].fields # <<>>
            /\ per = 0 => batches = <<>> /\ result.value.elements_styled = 0

\* Bold switched off and a color for the two BODY boxes, centered: four
\* requests, style then paragraph for b1, then for b2.
C20_Witness ==
    /\ Returned("apply_text_style")
    /\ call.placeholder_type = "BODY"
    /\ call.bold = Given(FALSE) /\ call.color # Unset /\ call.font_size_pt = Unset
    /\ call.italic = Unset /\ call.font_family = Unset
    /\ call.alignment = Given("CENTER")
    /\ StyleMatched = <<"b1", "b2">>
    /\ Len(batches) = 1 /\ Len(batches[1]) = 4
    /\ batches[1][1].updateTextStyle.fields = <<"bold", ",", "foregroundColor">>
    /\ batches[1][1].updateTextStyle.style.bold = FALSE
    /\ batches[1][2].updateParagraphStyle.objectId = "b1"
    /\ batches[1][3].updateTextStyle.objectId = "b2"
    /\ result.value.elements_styled = 2

\* ------------------------------------------------------------------ utility.py

\* The type of an element and the fields that go with it.
ElementTypeInfo(element) ==
    LET shape == element.shape
        text_elements == Get(Get(shape, "text", EmptyDict), "textElements", <<>>)
        text_content ==
            FlattenSeq([i \in 1..Len(text_elements) |->
                Get(Get(text_elements[i], "textRun", EmptyDict), "content", <<>>)])
        placeholder == Get(shape, "placeholder", EmptyDict)
    IN  IF "shape" \in DOMAIN element
        THEN [type |-> "SHAPE", shape_type |-> Get(shape, "shapeType", "UNKNOWN")]
             @@ (IF Strip(text_content) # <<>> THEN [text |-> Strip(text_content)] ELSE EmptyDict)
             @@ (IF NonEmpty(placeholder)
                 THEN [placeholder_type |-> Get(placeholder, "type", None)] ELSE EmptyDict)
        ELSE IF "image" \in DOMAIN element
        THEN [type |-> "IMAGE", image_url |-> Get(element.image, "sourceUrl", ""),
              content_url |-> Get(element.image, "contentUrl", "")]
        ELSE IF "table" \in DOMAIN element
        THEN [type |-> "TABLE", rows |-> Get(element.table, "rows", 0),
              columns |-> Get(element.table, "columns", 0)]
        ELSE IF "line" \in DOMAIN element
        THEN [type |-> "LINE", line_type |-> Get(element.line, "lineType", "UNKNOWN")]
        ELSE IF "video" \in DOMAIN element
        THEN [type |-> "VIDEO", video_source |-> Get(element.video, "source", "UNKNOWN"),
              video_url |-> Get(element.video, "url", "")]
        ELSE IF "sheetsChart" \in DOMAIN element
        THEN [type |-> "SHEETS_CHART",
              spreadsheet_id |-> Get(element.sheetsChart, "spreadsheetId", ""),
              chart_id |-> Get(element.sheetsChart, "chartId", "")]
        ELSE [type |-> "UNKNOWN"]

\* What get_element_info returns; it submits nothing.
InfoOutcome(pres, element_id) ==
    LET found == FindElement(pres, element_id)
        element == found[1]
        bounds == extract_element_bounds(element)
    IN  IF found = <<>>
        THEN [status |-> "raised", error |-> "ValueError",
              message |-> <<"Element ", element_id, " not found">>]
        ELSE IF ~HasGeometry(element)
        THEN [status |-> "raised", error |-> "ValueError",
              message |-> <<"Page element missing transform or size information">>]
        ELSE [status |-> "ok",
              value |-> [id |-> element_id,
                         position |-> [x_inches |-> emu_to_inches(bounds[1]),
                                       y_inches |-> emu_to_inches(bounds[2])],
                         size |-> [width_inches |-> emu_to_inches(bounds[3]),
                                   height_inches |-> emu_to_inches(bounds[4])]]
                        @@ ElementTypeInfo(element)]

\* ---- the presentations tried

TextBox == [shape |-> [shapeType |-> "TEXT_BOX",
                       text |-> [textElements |-> << [textRun |-> [content |-> <<"Hi", "\n">>]] >>]]]
Picture == [image |-> [sourceUrl |-> "http://img"]]

\* A text box and a picture on p1, a plain element on p2.  The picture may lack
\* its transform and the plain element its size; the plain element may carry
\* the text box's id, which makes the order of the scan observable.
ElementPresentations ==
    { page @@
      [presentationId |-> "deck",
       slides |-> << [objectId |-> "p1",
                      pageElements |-> << GeometryElement("e1", 11, 21, <<1001, 500>>, "none")
                                              @@ TextBox,
                                          GeometryElement("e2", 12, 22, <<6, 5>>,
                                              IF miss = "e2" THEN "transform" ELSE "none")
                                              @@ Picture >>],
                     [objectId |-> "p2",
                      pageElements |-> << GeometryElement(IF twice THEN "e1" ELSE "e3",
                                              13, 23, <<6, 5>>,
                                              IF miss = "e3" THEN "size" ELSE "none") >>] >>] :
      page \in {EmptyDict, [pageSize |-> [width |-> Magnitude(4000), height |-> Magnitude(3000)]]},
      miss \in {"none", "e2", "e3"}, twice \in BOOLEAN }

\* Elements the API trimmed: a transform without translation (an element at
\* the origin), a size without height.
TrimmedElements ==
    { [objectId |-> "t1", transform |-> [scaleX |-> 1, scaleY |-> 1, unit |-> "EMU"],
       size |-> [width |-> Magnitude(7), height |-> Magnitude(8)]],
      [objectId |-> "t2", transform |-> [scaleX |-> 1, scaleY |-> 1, translateX |-> 3,
                                         translateY |-> 4, unit |-> "EMU"],
       size |-> [width |-> Magnitude(7)]],
      [objectId |-> "t3"] }

\* ---- actions

get_element_info ==
    /\ pc = "idle"
    /\ \E element_id \in LookupIds :
          /\ call' = [op |-> "get_element_info", element_id |-> element_id]
          /\ result' = InfoOutcome(presentation, element_id)
    /\ pc' = "done"
    /\ UNCHANGED <<presentation, batches, directory>>

CallExtractElementBounds ==
    /\ pc = "idle"
    /\ \E element \in {AllPageElements(presentation)[i] :
                          i \in 1..Len(AllPageElements(presentation))} \cup TrimmedElements :
          /\ call' = [op |-> "extract_element_bounds", element |-> element]
          /\ result' = IF HasGeometry(element)
                       THEN [status |-> "ok", value |-> extract_element_bounds(element)]
                       ELSE [status |-> "raised", error |-> "ValueError",
                             message |-> <<"Page element missing transform or size information">>]
    /\ pc' = "done"
    /\ UNCHANGED <<presentation, batches, directory>>

InitElements ==
    /\ pc = "idle"
    /\ call = NoCall
    /\ presentation \in ElementPresentations
    /\ batches = <<>>
    /\ directory = NoFiles
    /\ result = NoResult

NextElements ==
    \/ position_element
    \/ distribute_elements
    \/ align_elements
    \/ get_element_info
    \/ CallExtractElementBounds

SpecElements == InitElements /\ [][NextElements]_vars

\* ---- claims

\* The element lacks one of the two blocks geometry is read from.
LacksGeometry(element) ==
    "transform" \notin DOMAIN element \/ "size" \notin DOMAIN element

\* Positions, in document order, of the elements an invocation measures: the
\* first match of the id for position_element, every element whose id is
\* among the ids given for distribute_elements and align_elements.
Measured ==
    LET all == AllPageElements(presentation)
        first_of(id) == {i \in 1..Len(all) :
                            /\ all[i].objectId = id
                            /\ \A j \in 1..(i - 1) : all[j].objectId # id}
    IN  IF call.op = "position_element" THEN first_of(call.element_id)
        ELSE {i \in 1..Len(all) :
                 \E k \in 1..Len(call.element_ids) : call.element_ids[k] = all[i].objectId}

MissingGeometry ==
    /\ result.status = "raised"
    /\ result.error = "ValueError"
    /\ result.message = <<"Page element missing transform or size information">>

\* C18: extract_element_bounds raises ValueError (missing geometry) exactly
\* when the element has no transform block or no size block, and otherwise
\* returns translateX, translateY and the width and height magnitudes (0 for a
\* value the block leaves out); position_element, distribute_elements and
\* align_elements raise that error and submit no batch whenever an element they
\* measure lacks geometry.
C18_MissingGeometry ==
    /\ (pc = "done" /\ call.op = "extract_element_bounds") =>
          LET element == call.element
          IN  IF LacksGeometry(element)
              THEN MissingGeometry
              ELSE /\ result.status = "ok"
                   /\ result.value =
                         << IF "translateX" \in DOMAIN element.transform
                            THEN element.transform.translateX ELSE 0,
                            IF "translateY" \in DOMAIN element.transform
                            THEN element.transform.translateY ELSE 0,
                            IF "width" \in DOMAIN element.size
                            THEN element.size.width.magnitude ELSE 0,
                            IF "height" \in DOMAIN element.size
                            THEN element.size.height.magnitude ELSE 0 >>
                   /\ \A k \in 1..4 : result.value[k] \in Int
    /\ (/\ pc = "done"
        /\ call.op \in {"position_element", "distribute_elements", "align_elements"}
        /\ \E i \in Measured : LacksGeometry(AllPageElements(presentation)[i])) =>
          MissingGeometry /\ batches = <<>>

\* position_element on the picture whose transform is absent, with a size and
\* an alignment requested: the error, and nothing submitted.
C18_Witness ==
    /\ pc = "done" /\ call.op = "position_element" /\ call.element_id = "e2"
    /\ call.width # Unset /\ call.horizontal_align = "center"
    /\ "transform" \notin DOMAIN ElementById("e2")
    /\ "size" \in DOMAIN ElementById("e2")
    /\ MissingGeometry
    /\ batches = <<>>

\* Positions, in document order, of the elements with the id looked up.
Matches ==
    LET all == AllPageElements(presentation)
    IN  {i \in 1..Len(all) : all[i].objectId = call.element_id}

\* The first of them: slide by slide, element by element.
FirstMatch ==
    AllPageElements(presentation)[CHOOSE i \in Matches : \A j \in Matches : i <= j]

NotFound ==
    /\ result.status = "raised"
    /\ result.error = "ValueError"
    /\ \E k \in 1..Len(result.message) : result.message[k] = call.element_id

\* The result reports the geometry of the element e, and for position_element
\* the requests are addressed to the id and keep what was not asked to change.
UsesElement(e) ==
    /\ result.status = "ok"
    /\ call.op = "get_element_info" =>
          /\ result.value.id = call.element_id
          /\ result.value.position = [x_inches |-> emu_to_inches(e.transform.translateX),
                                      y_inches |-> emu_to_inches(e.transform.translateY)]
          /\ result.value.size = [width_inches |-> emu_to_inches(e.size.width.magnitude),
                                  height_inches |-> emu_to_inches(e.size.height.magnitude)]
          /\ result.value.type = (IF "shape" \in DOMAIN e THEN "SHAPE"
                                  ELSE IF "image" \in DOMAIN e THEN "IMAGE" ELSE "UNKNOWN")
    /\ call.op = "position_element" =>
          /\ Len(batches) = 1
          /\ \A k \in 1..Len(batches[1]) :
                batches[1][k].updatePageElementTransform.objectId = call.element_id
          /\ call.width = Unset =>
                result.value.size.width_inches = emu_to_inches(e.size.width.magnitude)
          /\ call.height = Unset =>
                result.value.size.height_inches = emu_to_inches(e.size.height.magnitude)
          /\ (call.x = Unset /\ call.y = Unset
              /\ call.horizontal_align = None /\ call.vertical_align = None) =>
                /\ batches[1][1].updatePageElementTransform.transform.translateX
                      = e.transform.translateX
                /\ batches[1][1].updatePageElementTransform.transform.translateY
                      = e.transform.translateY

\* C19: position_element and get_element_info use the first element, in slide
\* order and then element order, whose id is the one requested; when no
\* element has it they raise ValueError with the id in the message, and
\* position_element submits no batch.
C19_FirstMatchOrNotFound ==
    (pc = "done" /\ call.op \in {"position_element", "get_element_info"}) =>
        IF Matches = {}
        THEN NotFound /\ batches = <<>>
        ELSE IF LacksGeometry(FirstMatch)
        THEN MissingGeometry /\ batches = <<>>
        ELSE UsesElement(FirstMatch)

\* Two elements carry the id e1, the text box on p1 and the plain element on
\* p2: get_element_info reports the text box.
C19_Witness ==
    /\ Returned("get_element_info")
    /\ call.element_id = "e1"
    /\ Cardinality(Matches) = 2
    /\ result.value.type = "SHAPE"
    /\ result.value.size.width_inches = [num |-> 1001, den |-> EMU_PER_INCH]
    /\ batches = <<>>

\* The bounds position_element read for the element it found.
PositionedBounds == extract_element_bounds(FindElement(presentation, call.element_id)[1])

\* C27: position_element changes a coordinate only on an axis something was
\* requested for: with x and horizontal_align both None the translateX sent
\* and the x returned are the element's current ones, likewise for y with
\* vertical_align, whatever is given for the other axis; an explicit x or y
\* overrides the alignment on its axis.
C27_UnrequestedAxisKept ==
    Returned("position_element") =>
        LET sent == batches[1][1].updatePageElementTransform.transform
            position == result.value.position
        IN  /\ (call.x = Unset /\ call.horizontal_align = None) =>
                  /\ sent.translateX = PositionedBounds[1]
                  /\ position.x_inches = emu_to_inches(PositionedBounds[1])
            /\ (call.y = Unset /\ call.vertical_align = None) =>
                  /\ sent.translateY = PositionedBounds[2]
                  /\ position.y_inches = emu_to_inches(PositionedBounds[2])
            /\ call.x # Unset =>
                  /\ sent.translateX = inches_to_emu(call.x)
                  /\ position.x_inches = emu_to_inches(inches_to_emu(call.x))
            /\ call.y # Unset =>
                  /\ sent.translateY = inches_to_emu(call.y)
                  /\ position.y_inches = emu_to_inches(inches_to_emu(call.y))

\* The position calculate_alignment_position gives the element the k-th
\* request addresses, for the alignments given and no margin.
SlidePosition(k, horizontal, vertical) ==
    LET b == BoundsById(batches[1][k].updatePageElementTransform.objectId)
    IN  calculate_alignment_position(PageSlideSize(presentation), b[3], b[4],
                                     horizontal, vertical, 0)

\* C28: centering against the slide gives the same coordinate in every tool:
\* align_elements with alignment center and reference slide sends the x that
\* calculate_alignment_position gives for horizontal center, and with
\* alignment middle the y it gives for vertical center.
C28_SameCenter ==
    (Returned("align_elements") /\ call.reference = "slide" /\ batches # <<>>) =>
        \A k \in 1..Len(batches[1]) :
            /\ call.alignment = "center" =>
                  batches[1][k].updatePageElementTransform.transform.translateX
                      = SlidePosition(k, "center", None)[1]
            /\ call.alignment = "middle" =>
                  batches[1][k].updatePageElementTransform.transform.translateY
                      = SlidePosition(k, None, "center")[2]

\* ------------------------------------------------------------------ creation.py

\* elementProperties of a create request: the page, the size and the transform.
ElementProperties(slide_id, x_emu, y_emu, width_emu, height_emu) ==
    [pageObjectId |-> slide_id,
     size |-> [width |-> Magnitude(width_emu), height |-> Magnitude(height_emu)],
     transform |-> [scaleX |-> 1, scaleY |-> 1, shearX |-> 0, shearY |-> 0,
                    translateX |-> x_emu, translateY |-> y_emu, unit |-> "EMU"]]

\* f"{prefix}_{uuid.uuid4().hex[:8]}": a text in two pieces.
ElementId(prefix, hex8) == <<prefix, hex8>>

\* A plausible slip: the id generated again for the follow-up requests.
FollowUpId_regenerated(element_id) == ElementId(element_id[1], "00000000")

\* The id the follow-up requests carry: the one generated before the requests.
FollowUpId(element_id) == element_id

\* What add_text_box submits and returns; hex8 is the uuid drawn.
AddTextBoxOutcome(slide_id, text, x, y, width, height, font_size, font_family, bold, italic, color, alignment, hex8) ==
    LET element_id == ElementId("textbox_", hex8)
        rgb == hex_to_rgb(color)
        requests ==
            << [createShape |->
                   [objectId |-> element_id, shapeType |-> "TEXT_BOX",
                    elementProperties |->
                        ElementProperties(slide_id, inches_to_emu(x), inches_to_emu(y),
                                          inches_to_emu(width), inches_to_emu(height))]],
               [insertText |-> [objectId |-> FollowUpId(element_id), text |-> text,
                                insertionIndex |-> 0]],
               [updateTextStyle |->
                   [objectId |-> FollowUpId(element_id),
                    style |-> [fontFamily |-> font_family,
                               fontSize |-> [magnitude |-> font_size, unit |-> "PT"],
                               bold |-> bold, italic |-> italic,
                               foregroundColor |-> [opaqueColor |-> [rgbColor |-> rgb.value]]],
                    fields |-> <<"fontFamily", ",", "fontSize", ",", "bold", ",", "italic",
                                 ",", "foregroundColor">>,
                    textRange |-> [type |-> "ALL"]]],
               [updateParagraphStyle |->
                   [objectId |-> FollowUpId(element_id), style |-> [alignment |-> alignment],
                    fields |-> <<"alignment">>, textRange |-> [type |-> "ALL"]]] >>
    IN  IF rgb.status = "raised"
        THEN [batches |-> <<>>, result |-> rgb]
        ELSE [batches |-> << requests >>,
              result |-> [status |-> "ok", value |-> [element_id |-> element_id]]]

\* What add_image submits and returns.  It reads no presentation: the slide
\* size is SLIDE_SIZES["16:9"].
AddImageOutcome(slide_id, image_url, x, y, width, height, horizontal_align, vertical_align, hex8) ==
    LET element_id == ElementId("image_", hex8)
        img_width == IF width # Unset THEN width ELSE [num |-> 4, den |-> 1]
        img_height == IF height # Unset THEN height ELSE [num |-> 3, den |-> 1]
        slide_size == SLIDE_SIZES_16_9
        aligned == calculate_alignment_position(slide_size, inches_to_emu(img_width),
                                                inches_to_emu(img_height),
                                                horizontal_align, vertical_align, 0)
        pos_x == IF horizontal_align # None \/ vertical_align # None THEN aligned[1]
                 ELSE inches_to_emu(IF x # Unset THEN x ELSE [num |-> 1, den |-> 1])
        pos_y == IF horizontal_align # None \/ vertical_align # None THEN aligned[2]
                 ELSE inches_to_emu(IF y # Unset THEN y ELSE [num |-> 1, den |-> 1])
        request ==
            [createImage |->
                [objectId |-> element_id, url |-> image_url,
                 elementProperties |->
                     ElementProperties(slide_id, pos_x, pos_y, inches_to_emu(img_width),
                                       inches_to_emu(img_height))]]
    IN  [batches |-> << << request >> >>,
         result |-> [status |-> "ok", value |-> [element_id |-> element_id]]]

\* "if fields": a fill color or an outline color was given.
ShapePropertiesNeeded(fill_color, outline_color) ==
    fill_color # Unset \/ outline_color # Unset

\* What add_shape submits and returns.
AddShapeOutcome(slide_id, shape_type, x, y, width, height, fill_color, outline_color, outline_weight, hex8) ==
    LET element_id == ElementId("shape_", hex8)
        fill_rgb == hex_to_rgb(fill_color.value)
        outline_rgb == hex_to_rgb(outline_color.value)
        create ==
            [createShape |->
                [objectId |-> element_id, shapeType |-> shape_type,
                 elementProperties |->
                     ElementProperties(slide_id, inches_to_emu(x), inches_to_emu(y),
                                       inches_to_emu(width), inches_to_emu(height))]]
        shape_props ==
            (IF fill_color # Unset
             THEN [shapeBackgroundFill |-> [solidFill |-> [color |-> [rgbColor |-> fill_rgb.value]]]]
             ELSE EmptyDict)
            @@ (IF outline_color # Unset
                THEN [outline |->
                         [outlineFill |-> [solidFill |-> [color |-> [rgbColor |-> outline_rgb.value]]],
                          weight |-> [magnitude |-> outline_weight, unit |-> "PT"]]]
                ELSE EmptyDict)
        fields ==
            (IF fill_color # Unset THEN << <<"shapeBackgroundFill">> >> ELSE <<>>)
            \o (IF outline_color # Unset THEN << <<"outline">> >> ELSE <<>>)
        update ==
            [updateShapeProperties |->
                [objectId |-> FollowUpId(element_id), shapeProperties |-> shape_props,
                 fields |-> JoinWith(fields, ",")]]
    IN  IF fill_color # Unset /\ fill_rgb.status = "raised"
        THEN [batches |-> <<>>, result |-> fill_rgb]
        ELSE IF outline_color # Unset /\ outline_rgb.status = "raised"
        THEN [batches |-> <<>>, result |-> outline_rgb]
        ELSE [batches |-> << << create >>
                             \o (IF ShapePropertiesNeeded(fill_color, outline_color)
                                 THEN << update >> ELSE <<>>) >>,
              result |-> [status |-> "ok", value |-> [element_id |-> element_id]]]

\* ---- the arguments tried

\* Values uuid4().hex[:8] may take.
Hex8 == {"0a1b2c3d", "ffffffff"}

Red == <<"#", "F", "F", "0", "0", "0", "0">>
ShortGreen == <<"0", "f", "0">>
NoColor == <<"r", "e", "d">>
SignedColor == <<"-", "F", "0", "0", "0", "0">>

\* Inches: a quarter, and 0.57, which the product takes below the exact value.
InchArgs == {[num |-> 1, den |-> 4], [num |-> 57, den |-> 100]}
OptionalInchArgs == {Unset} \cup InchArgs

\* ---- actions

add_text_box ==
    /\ pc = "idle"
    /\ \E text \in {<<"Hello">>, <<>>}, x \in InchArgs, width \in InchArgs,
          font_size \in {18, 0}, bold \in BOOLEAN,
          color \in {Red, ShortGreen, NoColor, SignedColor},
          alignment \in {"LEFT", "CENTER"},
          hex8 \in Hex8 :
          LET out == AddTextBoxOutcome("p1", text, x, [num |-> 1, den |-> 1], width,
                                       [num |-> 1, den |-> 1], font_size, "Arial", bold,
                                       FALSE, color, alignment, hex8)
          IN  /\ call' = [op |-> "add_text_box", slide_id |-> "p1", text |-> text,
                          x |-> x, width |-> width, font_size |-> font_size, bold |-> bold,
                          color |-> Given(color), alignment |-> alignment, hex8 |-> hex8]
              /\ batches' = out.batches
              /\ result' = out.result
    /\ pc' = "done"
    /\ UNCHANGED <<presentation, directory>>

add_image ==
    /\ pc = "idle"
    /\ \E x \in OptionalInchArgs, y \in {Unset, [num |-> 2, den |-> 1]},
          width \in OptionalInchArgs, height \in {Unset, [num |-> 1, den |-> 2]},
          horizontal_align \in HorizontalAligns, vertical_align \in VerticalAligns,
          hex8 \in Hex8 :
          LET out == AddImageOutcome("p1", "http://img", x, y, width, height,
                                     horizontal_align, vertical_align, hex8)
          IN  /\ call' = [op |-> "add_image", slide_id |-> "p1", x |-> x, y |-> y,
                          width |-> width, height |-> height,
                          horizontal_align |-> horizontal_align,
                          vertical_align |-> vertical_align, hex8 |-> hex8]
              /\ batches' = out.batches
              /\ result' = out.result
    /\ pc' = "done"
    /\ UNCHANGED <<presentation, directory>>

add_shape ==
    /\ pc = "idle"
    /\ \E shape_type \in {"RECTANGLE", "ELLIPSE"}, x \in InchArgs, width \in InchArgs,
          fill_color \in {Unset, Given(Red), Given(NoColor)},
          outline_color \in {Unset, Given(<<"#", "0", "0", "0", "0", "0", "0">>),
                             Given(ShortGreen), Given(NoColor)},
          hex8 \in Hex8 :
          LET out == AddShapeOutcome("p1", shape_type, x, [num |-> 1, den |-> 1], width,
                                     [num |-> 1, den |-> 1], fill_color, outline_color,
                                     [num |-> 1, den |-> 1], hex8)
          IN  /\ call' = [op |-> "add_shape", slide_id |-> "p1", shape_type |-> shape_type,
                          x |-> x, width |-> width, fill_color |-> fill_color,
                          outline_color |-> outline_color, hex8 |-> hex8]
              /\ batches' = out.batches
              /\ result' = out.result
    /\ pc' = "done"
    /\ UNCHANGED <<presentation, directory>>

NextCreation == add_text_box \/ add_image \/ add_shape

SpecCreation == InitContent /\ [][NextCreation]_vars

\* The tools that validate a color locally, on the content presentations.
NextValidation == apply_text_style \/ add_text_box \/ add_shape

SpecValidation == InitContent /\ [][NextValidation]_vars

\* ---- claims

\* The kind of a request: its one key.
RequestKind(request) == CHOOSE key \in DOMAIN request : TRUE

CreationOps == {"add_text_box", "add_image", "add_shape"}

\* C21: the batch of add_text_box, add_image and add_shape starts with the
\* create request (createImage for add_image, createShape otherwise); every
\* request after it is a follow-up with the create request's objectId, which
\* is the one id generated for the invocation and the element_id returned;
\* add_shape has its updateShapeProperties follow-up iff a fill color or an
\* outline color is given.
C21_CreateFirstSameId ==
    (pc = "done" /\ call.op \in CreationOps /\ result.status = "ok") =>
        LET requests == batches[1]
            create == requests[1]
            followups == [i \in 1..(Len(requests) - 1) |-> RequestKind(requests[i + 1])]
            prefix == CASE call.op = "add_text_box" -> "textbox_"
                        [] call.op = "add_image" -> "image_"
                        [] OTHER -> "shape_"
        IN  /\ Len(batches) = 1
            /\ RequestKind(create) = (IF call.op = "add_image" THEN "createImage"
                                      ELSE "createShape")
            /\ create[RequestKind(create)].objectId = <<prefix, call.hex8>>
            /\ result.value.element_id = create[RequestKind(create)].objectId
            /\ \A i \in 2..Len(requests) :
                  /\ RequestKind(requests[i]) \in {"insertText", "updateTextStyle",
                                                   "updateParagraphStyle",
                                                   "updateShapeProperties"}
                  /\ requests[i][RequestKind(requests[i])].objectId
                        = create[RequestKind(create)].objectId
            /\ call.op = "add_text_box" =>
                  followups = <<"insertText", "updateTextStyle", "updateParagraphStyle">>
            /\ call.op = "add_image" => followups = <<>>
            /\ call.op = "add_shape" =>
                  followups = (IF call.fill_color # Unset \/ call.outline_color # Unset
                               THEN <<"updateShapeProperties">> ELSE <<>>)

\* A shape with an outline color and no fill: the create request and the
\* properties request, both for the id returned.
C21_Witness ==
    /\ Returned("add_shape")
    /\ call.fill_color = Unset /\ call.outline_color = Given(ShortGreen)
    /\ Len(batches[1]) = 2
    /\ batches[1][1].createShape.objectId = <<"shape_", "0a1b2c3d">>
    /\ batches[1][2].updateShapeProperties.objectId = <<"shape_", "0a1b2c3d">>
    /\ batches[1][2].updateShapeProperties.fields = <<"outline">>
    /\ result.value.element_id = <<"shape_", "0a1b2c3d">>

\* A color argument of the finished invocation is no hex color.
InvalidColorGiven ==
    LET invalid(arg) == arg # Unset /\ ~WellFormedHexColor(arg.value)
    IN  IF call.op = "add_shape"
        THEN invalid(call.fill_color) \/ invalid(call.outline_color)
        ELSE invalid(call.color)

\* C23: apply_text_style, add_text_box and add_shape invoked with an invalid
\* hex color raise ValueError (invalid color) and submit no batch, whatever
\* the document contains.
C23_InvalidColorRaises ==
    (pc = "done" /\ call.op \in {"apply_text_style", "add_text_box", "add_shape"}
     /\ InvalidColorGiven) =>
        /\ result.status = "raised"
        /\ result.error = "ValueError"
        /\ batches = <<>>

\* ---- the slide size the tools position against

\* Three elements with geometry under every page size tried: none, a small
\* page, a page the elements fit, a page of zero width.
SlideSizePresentations ==
    { page @@
      [presentationId |-> "deck",
       slides |-> << [objectId |-> "p1",
                      pageElements |-> << GeometryElement("e1", 11, 21, <<1001, 500>>, "none"),
                                          GeometryElement("e2", 12, 22, <<6, 5>>, "none") >>],
                     [objectId |-> "p2",
                      pageElements |-> << GeometryElement("e3", 13, 23, <<6, 5>>, "none") >>] >>] :
      page \in PageSizeDicts }

InitSlideSize ==
    /\ pc = "idle"
    /\ call = NoCall
    /\ presentation \in SlideSizePresentations
    /\ batches = <<>>
    /\ directory = NoFiles
    /\ result = NoResult

NextSlideSize == position_element \/ distribute_elements \/ align_elements \/ add_image

SpecSlideSize == InitSlideSize /\ [][NextSlideSize]_vars

\* The size the claim prescribes: the document's page size when it has one
\* with a non-zero width and height, 9144000 x 5143500 otherwise.
PrescribedSlideSize ==
    IF /\ "pageSize" \in DOMAIN presentation
       /\ presentation.pageSize.width.magnitude # 0
       /\ presentation.pageSize.height.magnitude # 0
    THEN << presentation.pageSize.width.magnitude, presentation.pageSize.height.magnitude >>
    ELSE << 9144000, 5143500 >>

\* The transform of the k-th request of the batch.
SentTransform(k) ==
    LET request == batches[1][k]
    IN  IF "createImage" \in DOMAIN request
        THEN request.createImage.elementProperties.transform
        ELSE request.updatePageElementTransform.transform

\* The size sent or kept for the element the k-th request addresses.
SentExtent(k) ==
    LET request == batches[1][k]
    IN  IF "createImage" \in DOMAIN request
        THEN << request.createImage.elementProperties.size.width.magnitude,
                request.createImage.elementProperties.size.height.magnitude >>
        ELSE LET b == BoundsById(request.updatePageElementTransform.objectId)
             IN  << b[3], b[4] >>

\* C24: position_element, distribute_elements, align_elements with reference
\* slide, and add_image with an alignment measure against the document's page
\* width and height when both are present and non-zero, and against 9144000 x
\* 5143500 otherwise.  Seen where the size decides the result: the far edge of
\* a right- or bottom-aligned element, and the even gap.
C24_DocumentSlideSize ==
    LET W == PrescribedSlideSize[1]
        H == PrescribedSlideSize[2]
    IN  /\ (Returned("position_element") /\ call.width = Unset /\ call.height = Unset) =>
              /\ (call.horizontal_align = "right" /\ call.x = Unset) =>
                    SentTransform(1).translateX + SentExtent(1)[1] = W
              /\ (call.vertical_align = "bottom" /\ call.y = Unset) =>
                    SentTransform(1).translateY + SentExtent(1)[2] = H
        /\ Returned("add_image") =>
              /\ call.horizontal_align = "right" =>
                    SentTransform(1).translateX + SentExtent(1)[1] = W
              /\ call.vertical_align = "bottom" =>
                    SentTransform(1).translateY + SentExtent(1)[2] = H
        /\ (Aligned /\ call.reference = "slide") =>
              \A k \in 1..Len(batches[1]) :
                  /\ call.alignment = "right" =>
                        SentTransform(k).translateX + SentExtent(k)[1] = W
                  /\ call.alignment = "bottom" =>
                        SentTransform(k).translateY + SentExtent(k)[2] = H
        /\ (Distributed /\ call.spacing.kind = "even") =>
              LET n == Len(batches[1])
                  extents == [k \in 1..n |-> IF call.direction = "horizontal"
                                             THEN SentExtent(k)[1] ELSE SentExtent(k)[2]]
                  container == IF call.direction = "horizontal" THEN W ELSE H
              IN  FirstLeadingEdge = TruncDiv(container - SumSeq(extents), n + 1)

\* ======================================================================
\* tools/analysis.py: the per-slide record of analyze_presentation and its
\* categorisation
\* ======================================================================

UpperLetters == <<"A", "B", "C", "D", "E", "F", "G", "H", "I", "J", "K", "L", "M", "N", "O", "P", "Q", "R", "S", "T", "U", "V", "W", "X", "Y", "Z">>
LowerLetters == <<"a", "b", "c", "d", "e", "f", "g", "h", "i", "j", "k", "l", "m", "n", "o", "p", "q", "r", "s", "t", "u", "v", "w", "x", "y", "z">>

\* str.lower()
Lower(str) ==
    [k \in 1..Len(str) |->
        IF \E l \in 1..Len(UpperLetters) : UpperLetters[l] = str[k]
        THEN LowerLetters[CHOOSE l \in 1..Len(UpperLetters) : UpperLetters[l] = str[k]]
        ELSE str[k]]

\* kw in title
Contains(title, kw) ==
    \E start \in 0..(Len(title) - Len(kw)) : SubSeq(title, start + 1, start + Len(kw)) = kw

\* any(kw in title for kw in keywords)
AnyKeyword(title, keywords) == \E k \in 1..Len(keywords) : Contains(title, keywords[k])

CoverKeywords ==
    << <<"c", "o", "v", "e", "r">>,
       <<"t", "i", "t", "l", "e", " ", "p", "a", "g", "e">> >>

SectionKeywords ==
    << <<"s", "e", "c", "t", "i", "o", "n">>,
       <<"d", "i", "v", "i", "d", "e", "r">> >>

DataKeywords ==
    << <<"c", "h", "a", "r", "t">>,
       <<"g", "r", "a", "p", "h">>,
       <<"t", "a", "b", "l", "e">>,
       <<"d", "a", "t", "a">> >>

InfographicKeyword == <<"i", "n", "f", "o", "g", "r", "a", "p", "h", "i", "c">>

MockupKeywords ==
    << <<"m", "o", "c", "k", "u", "p">>,
       <<"p", "h", "o", "n", "e">>,
       <<"l", "a", "p", "t", "o", "p">>,
       <<"d", "e", "v", "i", "c", "e">>,
       <<"s", "m", "a", "r", "t", "p", "h", "o", "n", "e">>,
       <<"n", "o", "t", "e", "b", "o", "o", "k">> >>

\* The slide_info record the analysis loop builds for the slide at position
\* index, before its category is added.
SlideInfo(slide, index) ==
    LET page_elements == Get(slide, "pageElements", <<>>)
        shape_of(element) == Get(element, "shape", EmptyDict)
        type_of(element) == Get(Get(shape_of(element), "placeholder", EmptyDict), "type", None)
        contents(element) ==
            LET text_elements == Get(Get(shape_of(element), "text", EmptyDict), "textElements", <<>>)
            IN  SelectSeq([k \in 1..Len(text_elements) |->
                              Strip(Get(Get(text_elements[k], "textRun", EmptyDict), "content", <<>>))],
                          LAMBDA content : content # <<>>)
        texts(type) ==
            FlattenSeq([k \in 1..Len(page_elements) |->
                IF NonEmpty(shape_of(page_elements[k])) /\ type_of(page_elements[k]) = type
                THEN contents(page_elements[k]) ELSE <<>>])
        last(seq) == IF seq = <<>> THEN <<>> ELSE seq[Len(seq)]
        is_image(element) == "image" \in DOMAIN element
        is_chart(element) == ~is_image(element) /\ "sheetsChart" \in DOMAIN element
        is_table(element) == ~is_image(element) /\ ~is_chart(element) /\ "table" \in DOMAIN element
        tagged == SelectSeq(page_elements,
                      LAMBDA element : NonEmpty(shape_of(element)) /\ type_of(element) # None)
    IN  [slide_id |-> Get(slide, "objectId", <<>>),
         index |-> index,
         element_count |-> Len(page_elements),
         title |-> last(texts("TITLE")),
         subtitle |-> last(texts("SUBTITLE")),
         has_image |-> \E k \in 1..Len(page_elements) : is_image(page_elements[k]),
         has_chart |-> \E k \in 1..Len(page_elements) : is_chart(page_elements[k]),
         has_table |-> \E k \in 1..Len(page_elements) : is_table(page_elements[k]),
         placeholder_types |-> [k \in 1..Len(tagged) |-> type_of(tagged[k])]]

InPlaceholders(type, placeholders) == \E k \in 1..Len(placeholders) : placeholders[k] = type

\* A plausible slip: the section-divider test placed before the cover test.
_categorize_slide_section_first(slide_info) ==
    LET title == Lower(slide_info.title)
        placeholders == slide_info.placeholder_types
        element_count == slide_info.element_count
    IN  IF AnyKeyword(title, SectionKeywords)
           \/ (/\ element_count <= 3
               /\ InPlaceholders("TITLE", placeholders)
               /\ (InPlaceholders("SUBTITLE", placeholders) \/ element_count = 1))
        THEN "section_divider"
        ELSE IF AnyKeyword(title, CoverKeywords)
           \/ (/\ element_count <= 4
               /\ InPlaceholders("TITLE", placeholders)
               /\ InPlaceholders("BODY", placeholders)
               /\ slide_info.index < 15)
        THEN "cover"
        ELSE IF slide_info.has_chart \/ AnyKeyword(title, DataKeywords)
        THEN "data_visualization"
        ELSE IF slide_info.has_table
        THEN "data_visualization"
        ELSE IF Contains(title, InfographicKeyword) \/ element_count > 15
        THEN "infographic"
        ELSE IF AnyKeyword(title, MockupKeywords)
        THEN "mockup"
        ELSE IF slide_info.has_image /\ element_count <= 5
        THEN "image_focused"
        ELSE IF InPlaceholders("BODY", placeholders) \/ element_count >= 3
        THEN "content"
        ELSE "other"

_categorize_slide(slide_info) ==
    LET title == Lower(slide_info.title)
        placeholders == slide_info.placeholder_types
        element_count == slide_info.element_count
    IN  IF AnyKeyword(title, CoverKeywords)
           \/ (/\ element_count <= 4
               /\ InPlaceholders("TITLE", placeholders)
               /\ InPlaceholders("BODY", placeholders)
               /\ slide_info.index < 15)
        THEN "cover"
        ELSE IF AnyKeyword(title, SectionKeywords)
           \/ (/\ element_count <= 3
               /\ InPlaceholders("TITLE", placeholders)
               /\ (InPlaceholders("SUBTITLE", placeholders) \/ element_count = 1))
        THEN "section_divider"
        ELSE IF slide_info.has_chart \/ AnyKeyword(title, DataKeywords)
        THEN "data_visualization"
        ELSE IF slide_info.has_table
        THEN "data_visualization"
        ELSE IF Contains(title, InfographicKeyword) \/ element_count > 15
        THEN "infographic"
        ELSE IF AnyKeyword(title, MockupKeywords)
        THEN "mockup"
        ELSE IF slide_info.has_image /\ element_count <= 5
        THEN "image_focused"
        ELSE IF InPlaceholders("BODY", placeholders) \/ element_count >= 3
        THEN "content"
        ELSE "other"

\* ---- the slides tried

MaxFiller == 16
MaxIndex == 16

Q1Section == <<"Q", "1", " ", "S", "e", "c", "t", "i", "o", "n">>

\* Titles as the TITLE placeholder shows them (the empty title is a TITLE box
\* without text).
Titles ==
    { <<>>,
      <<"Q", "1", " ", "S", "e", "c", "t", "i", "o", "n">>,
      <<"C", "o", "v", "e", "r">>,
      <<"T", "i", "t", "l", "e", " ", "P", "a", "g", "e">>,
      <<"R", "e", "c", "o", "v", "e", "r", "y", " ", "p", "l", "a", "n">>,
      <<"C", "o", "v", "e", "r", " ", "S", "e", "c", "t", "i", "o", "n">>,
      <<"D", "i", "v", "i", "d", "e", "r">>,
      <<"S", "a", "l", "e", "s", " ", "D", "a", "t", "a">>,
      <<"D", "a", "t", "a", " ", "D", "i", "v", "i", "d", "e", "r">>,
      <<"R", "e", "v", "e", "n", "u", "e", " ", "C", "h", "a", "r", "t">>,
      <<"G", "r", "a", "p", "h">>,
      <<"T", "a", "b", "l", "e">>,
      <<"I", "n", "f", "o", "g", "r", "a", "p", "h", "i", "c">>,
      <<"I", "n", "f", "o", "g", "r", "a", "p", "h", "i", "c", " ", "c", "h", "a", "r", "t">>,
      <<"P", "h", "o", "n", "e">>,
      <<"L", "a", "p", "t", "o", "p">>,
      <<"D", "e", "v", "i", "c", "e">>,
      <<"N", "o", "t", "e", "b", "o", "o", "k">>,
      <<"S", "m", "a", "r", "t", "p", "h", "o", "n", "e", " ", "i", "n", "f", "o", "g", "r", "a", "p", "h", "i", "c">>,
      <<"M", "o", "c", "k", "u", "p">>,
      <<"A", "g", "e", "n", "d", "a">>,
      <<"T", "i", "t", "l", "e">> }

ElementKinds == {"TITLE", "SUBTITLE", "BODY", "image", "sheetsChart", "table"}

\* A slide with one element of each kind in kinds (placeholders first), then
\* filler rectangles that are no placeholders.
AnalysisSlide(title, kinds, filler) ==
    LET runs == IF title = <<>> THEN <<>>
                ELSE << [paragraphMarker |-> [style |-> "p"]],
                        [textRun |-> [content |-> title \o <<"\n">>]] >>
        one(kind, element) == IF kind \in kinds THEN <<element>> ELSE <<>>
    IN  [objectId |-> "p1",
         pageElements |->
             one("TITLE", PlaceholderShape("t1", "TITLE", runs))
             \o one("SUBTITLE", PlaceholderShape("s1", "SUBTITLE", OldText))
             \o one("BODY", PlaceholderShape("b1", "BODY", OldText))
             \o one("image", [objectId |-> "i1", image |-> [contentUrl |-> "url"]])
             \o one("sheetsChart", [objectId |-> "c1", sheetsChart |-> [chartId |-> 1]])
             \o one("table", [objectId |-> "g1", table |-> [rows |-> 1]])
             \o [k \in 1..filler |-> [objectId |-> "x", shape |-> [shapeType |-> "RECTANGLE"]]]]

SlideIndexes == {0} \cup ((MaxIndex - 2)..MaxIndex)

\* Few fillers and many, so that element counts lie on both sides of every
\* threshold of the cascade (1, 3, 4, 5 and 15).
Fillers == (0..3) \cup ((MaxFiller - 4)..MaxFiller)

\* ---- action

CallCategorizeSlide ==
    /\ pc = "idle"
    /\ \E kinds \in SUBSET ElementKinds, filler \in Fillers, index \in SlideIndexes :
          \E title \in (IF "TITLE" \in kinds THEN Titles ELSE {<<>>}) :
              LET slide_info == SlideInfo(AnalysisSlide(title, kinds, filler), index)
              IN  /\ call' = [op |-> "_categorize_slide", slide_info |-> slide_info]
                  /\ result' = [status |-> "ok", value |-> _categorize_slide(slide_info)]
    /\ pc' = "done"
    /\ UNCHANGED <<presentation, batches, directory>>

NextAnalysis == CallCategorizeSlide

SpecAnalysis == InitPure /\ [][NextAnalysis]_vars

\* ---- claims

CategoryLabels ==
    <<"cover", "section_divider", "data_visualization", "infographic", "mockup",
      "image_focused", "content", "other">>

\* Whether rule k of the cascade matches the categorised slide record.
RuleMatches(k) ==
    LET info == call.slide_info
        title == Lower(info.title)
        n == info.element_count
        present(type) == \E j \in 1..Len(info.placeholder_types) : info.placeholder_types[j] = type
    IN  CASE k = 1 -> \/ AnyKeyword(title, CoverKeywords)
                      \/ (n <= 4 /\ present("TITLE") /\ present("BODY") /\ info.index < 15)
          [] k = 2 -> \/ AnyKeyword(title, SectionKeywords)
                      \/ (n <= 3 /\ present("TITLE") /\ (present("SUBTITLE") \/ n = 1))
          [] k = 3 -> info.has_chart \/ AnyKeyword(title, DataKeywords) \/ info.has_table
          [] k = 4 -> Contains(title, InfographicKeyword) \/ n > 15
          [] k = 5 -> AnyKeyword(title, MockupKeywords)
          [] k = 6 -> info.has_image /\ n <= 5
          [] k = 7 -> present("BODY") \/ n >= 3
          [] OTHER -> TRUE

\* C6: _categorize_slide returns the label of the first matching rule of the
\* ordered cascade cover, section_divider, data_visualization, infographic,
\* mockup, image_focused, content, other, and of no later rule; a slide titled
\* "Q1 Section" with exactly the elements TITLE and SUBTITLE is section_divider
\* and a slide matching both rule 1 and rule 2 is cover.
C6_OrderedCascade ==
    Returned("_categorize_slide") =>
        /\ \E k \in 1..8 :
              /\ RuleMatches(k)
              /\ \A j \in 1..(k - 1) : ~RuleMatches(j)
              /\ result.value = CategoryLabels[k]
        /\ (/\ call.slide_info.title = Q1Section
            /\ call.slide_info.placeholder_types = <<"TITLE", "SUBTITLE">>
            /\ call.slide_info.element_count = 2) => result.value = "section_divider"
        /\ (RuleMatches(1) /\ RuleMatches(2)) => result.value = "cover"

\* "Q1 Section" with TITLE and SUBTITLE, two elements: section_divider, though
\* the record would also be a TITLE-with-SUBTITLE slide of at most 3 elements.
C6_Witness ==
    /\ Returned("_categorize_slide")
    /\ call.slide_info.title = Q1Section
    /\ call.slide_info.placeholder_types = <<"TITLE", "SUBTITLE">>
    /\ call.slide_info.element_count = 2
    /\ ~RuleMatches(1) /\ RuleMatches(2) /\ RuleMatches(7) = FALSE
    /\ result.value = "section_divider"

\* ------------------------------------------------------------------ analysis.py: colors

\* The format {:02x} of a byte.
FormatLower02(n) ==
    IF n < 16 THEN <<"0", HexDigitsLower[n + 1]>>
    ELSE <<HexDigitsLower[(n \div 16) + 1], HexDigitsLower[(n % 16) + 1]>>

\* int(channel * 255) of a channel of rgbColor, 0 when the channel is left out.
ChannelByte(rgb, name) ==
    LET channel == Get(rgb, name, Zero)
    IN  TruncDiv(channel.num * 255, channel.den)

\* _extract_color: colors_found with the context added under the color's key;
\* nothing is added for a color with neither a themeColor nor a non-empty
\* rgbColor.  colors_found is the dict as the list of its items, in insertion
\* order.
_extract_color(color_data, context, colors_found) ==
    LET rgb == Get(color_data, "rgbColor", EmptyDict)
        theme_color == Get(color_data, "themeColor", "")
        color_key == IF theme_color # "" THEN <<"theme:", theme_color>>
                     ELSE <<"#">> \o FormatLower02(ChannelByte(rgb, "red"))
                                  \o FormatLower02(ChannelByte(rgb, "green"))
                                  \o FormatLower02(ChannelByte(rgb, "blue"))
        at == {k \in 1..Len(colors_found) : colors_found[k].color = color_key}
        has(contexts) == \E n \in 1..Len(contexts) : contexts[n] = context
    IN  IF theme_color = "" /\ ~NonEmpty(rgb) THEN colors_found
        ELSE IF at = {}
        THEN Append(colors_found, [color |-> color_key, contexts |-> <<context>>])
        ELSE [k \in 1..Len(colors_found) |->
                 IF k \in at /\ ~has(colors_found[k].contexts)
                 THEN [colors_found[k] EXCEPT !.contexts = Append(@, context)]
                 ELSE colors_found[k]]

\* The calls of _extract_color the loop over one element makes, in order: the
\* text color of every run with content, the shape fill, and the background of
\* the page.
ElementColorCalls(slide, element, i) ==
    LET shape == Get(element, "shape", EmptyDict)
        text_elements == Get(Get(shape, "text", EmptyDict), "textElements", <<>>)
        text_run(k) == Get(text_elements[k], "textRun", EmptyDict)
        runs == SelectSeq([k \in 1..Len(text_elements) |-> k],
                          LAMBDA k : Strip(Get(text_run(k), "content", <<>>)) # <<>>)
        fg_color(k) ==
            Get(Get(Get(text_run(k), "style", EmptyDict), "foregroundColor", EmptyDict),
                "opaqueColor", EmptyDict)
        shape_fill ==
            Get(Get(Get(shape, "shapeProperties", EmptyDict), "shapeBackgroundFill", EmptyDict),
                "solidFill", EmptyDict)
        page_fill ==
            Get(Get(Get(slide, "pageProperties", EmptyDict), "pageBackgroundFill", EmptyDict),
                "solidFill", EmptyDict)
    IN  (IF NonEmpty(shape)
         THEN [n \in 1..Len(runs) |->
                  [color_data |-> fg_color(runs[n]), context |-> <<"Text on slide ", i + 1>>]]
              \o (IF NonEmpty(shape_fill)
                  THEN << [color_data |-> Get(shape_fill, "color", EmptyDict),
                           context |-> <<"Shape fill on slide ", i + 1>>] >>
                  ELSE <<>>)
         ELSE <<>>)
        \o (IF NonEmpty(page_fill)
            THEN << [color_data |-> Get(page_fill, "color", EmptyDict),
                     context |-> <<"Background on slide ", i + 1>>] >>
            ELSE <<>>)

\* The calls of a whole presentation, slide by slide and element by element
\* (i counts the slides from 0).
ColorCalls(pres) ==
    FlattenSeq([s \in 1..Len(pres.slides) |->
        LET page_elements == Get(pres.slides[s], "pageElements", <<>>)
        IN  FlattenSeq([e \in 1..Len(page_elements) |->
                ElementColorCalls(pres.slides[s], page_elements[e], s - 1)])])

RECURSIVE RecordColors(_, _)
RecordColors(calls, colors_found) ==
    IF calls = <<>> THEN colors_found
    ELSE RecordColors(Tail(calls),
             _extract_color(Head(calls).color_data, Head(calls).context, colors_found))

\* sorted(..., key = usage_count, reverse = True): stable, larger counts first.
RECURSIVE InsertByUsage(_, _)
InsertByUsage(sorted, entry) ==
    IF sorted = <<>> THEN <<entry>>
    ELSE IF Head(sorted).usage_count >= entry.usage_count
         THEN <<Head(sorted)>> \o InsertByUsage(Tail(sorted), entry)
         ELSE <<entry>> \o sorted

RECURSIVE SortByUsage(_)
SortByUsage(entries) ==
    IF entries = <<>> THEN <<>>
    ELSE InsertByUsage(SortByUsage(SubSeq(entries, 1, Len(entries) - 1)), entries[Len(entries)])

\* color_palette: an entry per color with at most five contexts, the twenty
\* most used first.
ColorPalette(colors_found) ==
    LET entries == [k \in 1..Len(colors_found) |->
                       [color |-> colors_found[k].color,
                        usage_count |-> Len(colors_found[k].contexts),
                        contexts |-> SubSeq(colors_found[k].contexts, 1,
                                            IF Len(colors_found[k].contexts) < 5
                                            THEN Len(colors_found[k].contexts) ELSE 5)]]
        sorted == SortByUsage(entries)
    IN  SubSeq(sorted, 1, IF Len(sorted) < 20 THEN Len(sorted) ELSE 20)

\* ---- the presentations tried

MaxShapes == 2

RgbRed == [rgbColor |-> [red |-> [num |-> 1, den |-> 1]]]
RgbGrey == [rgbColor |-> [red |-> [num |-> 1, den |-> 2], green |-> [num |-> 1, den |-> 2],
                          blue |-> [num |-> 1, den |-> 2]]]
ThemeAccent == [themeColor |-> "ACCENT1"]

\* The k-th shape of a slide: filled red, with a run of grey text, a run of
\* red text and an empty run.
ColoredShape(k) ==
    [objectId |-> BodyNames[k],
     shape |-> [shapeType |-> "RECTANGLE",
                shapeProperties |-> [shapeBackgroundFill |-> [solidFill |-> [color |-> RgbRed]]],
                text |-> [textElements |->
                    << [textRun |-> [content |-> <<"Grey">>,
                                     style |-> [foregroundColor |-> [opaqueColor |-> RgbGrey]]]],
                       [textRun |-> [content |-> <<"Red", "\n">>,
                                     style |-> [foregroundColor |-> [opaqueColor |-> RgbRed]]]],
                       [textRun |-> [content |-> <<"\n">>,
                                     style |-> [foregroundColor |-> [opaqueColor |-> ThemeAccent]]]] >>]]]

\* Page backgrounds: none, solid red, solid grey, a theme color.
Backgrounds ==
    { EmptyDict,
      [pageProperties |-> [pageBackgroundFill |-> [solidFill |-> [color |-> RgbRed]]]],
      [pageProperties |-> [pageBackgroundFill |-> [solidFill |-> [color |-> RgbGrey]]]],
      [pageProperties |-> [pageBackgroundFill |-> [solidFill |-> [color |-> ThemeAccent]]]] }

\* A slide with n shapes, n from 0, and a background.
ColoredSlides ==
    { background @@ [objectId |-> "p", pageElements |-> [k \in 1..n |-> ColoredShape(k)]] :
        n \in 0..MaxShapes, background \in Backgrounds }

ColoredPresentations ==
    { [presentationId |-> "deck", slides |-> slides] : slides \in SeqsUpTo(ColoredSlides, 2) }

\* ---- actions

\* analyze_presentation, for the parts of its result that depend on colors and
\* on the slide records: it reads the presentation and submits nothing.
analyze_presentation ==
    /\ pc = "idle"
    /\ call' = [op |-> "analyze_presentation"]
    /\ LET colors_found == RecordColors(ColorCalls(presentation), <<>>)
           slides == presentation.slides
       IN  result' = [status |-> "ok",
                      value |-> [colors_found |-> colors_found,
                                 color_palette |-> ColorPalette(colors_found),
                                 slide_inventory |->
                                     [s \in 1..Len(slides) |->
                                         SlideInfo(slides[s], s - 1)
                                         @@ [category |->
                                                _categorize_slide(SlideInfo(slides[s], s - 1))]]]]
    /\ pc' = "done"
    /\ UNCHANGED <<presentation, batches, directory>>

InitColorUsage ==
    /\ pc = "idle"
    /\ call = NoCall
    /\ presentation \in ColoredPresentations
    /\ batches = <<>>
    /\ directory = NoFiles
    /\ result = NoResult

NextColorUsage == analyze_presentation

SpecColorUsage == InitColorUsage /\ [][NextColorUsage]_vars

\* ---- claims

\* The number of times a context is recorded, whatever the color.
TimesRecorded(context) ==
    LET found == result.value.colors_found
    IN  SumSeq([k \in 1..Len(found) |->
            Cardinality({n \in 1..Len(found[k].contexts) : found[k].contexts[n] = context})])

\* The key of the colors tried.
KeyOf(color) ==
    CASE color = RgbRed -> <<"#", "f", "f", "0", "0", "0", "0">>
      [] color = RgbGrey -> <<"#", "7", "f", "7", "f", "7", "f">>
      [] OTHER -> <<"theme:", "ACCENT1">>

RecordedUnder(color, context) ==
    \E k \in 1..Len(result.value.colors_found) :
        /\ result.value.colors_found[k].color = KeyOf(color)
        /\ \E n \in 1..Len(result.value.colors_found[k].contexts) :
              result.value.colors_found[k].contexts[n] = context

\* C25: the analysis records the solid page background of every slide, under
\* that slide's background context and exactly once, whatever the number of
\* elements on the slide (zero included); shape fills and text colors are
\* recorded once per color and slide context.
C25_BackgroundRecordedOnce ==
    Returned("analyze_presentation") =>
        /\ \A s \in 1..Len(presentation.slides) :
              "pageProperties" \in DOMAIN presentation.slides[s] =>
                  /\ RecordedUnder(
                         presentation.slides[s].pageProperties.pageBackgroundFill.solidFill.color,
                         <<"Background on slide ", s>>)
                  /\ TimesRecorded(<<"Background on slide ", s>>) = 1
        /\ \A s \in 1..Len(presentation.slides) :
              Len(presentation.slides[s].pageElements) > 0 =>
                  /\ RecordedUnder(RgbRed, <<"Shape fill on slide ", s>>)
                  /\ TimesRecorded(<<"Shape fill on slide ", s>>) = 1
                  /\ RecordedUnder(RgbRed, <<"Text on slide ", s>>)
                  /\ RecordedUnder(RgbGrey, <<"Text on slide ", s>>)
                  /\ TimesRecorded(<<"Text on slide ", s>>) = 2

\* ------------------------------------------------------------------ auth/token_store.py

\* str.isalnum on the characters the user ids tried are made of.
AlnumChars ==
    {"a", "b", "c", "d", "e", "f", "g", "h", "i", "j", "k", "l", "m", "n", "o", "p", "q",
     "r", "s", "t", "u", "v", "w", "x", "y", "z", "0", "1", "2", "3", "4", "5", "6", "7",
     "8", "9"}

\* FileTokenStore._get_path: the file name under the store's directory, every
\* character of the user id that is not alphanumeric replaced by "_".
_get_path(user_id) ==
    [k \in 1..Len(user_id) |-> IF user_id[k] \in AlnumChars THEN user_id[k] ELSE "_"]
        \o <<".json">>

\* json.dump then json.load of a credentials dict whose keys and values are
\* strings gives an equal dict; the file content is the dict.
\* FileTokenStore.retrieve on a directory: None when the file is missing.
Retrieve(dir, user_id) ==
    IF _get_path(user_id) \in DOMAIN dir
    THEN [kind |-> "dict", value |-> dir[_get_path(user_id)]]
    ELSE [kind |-> "None"]

\* ---- the calls tried

MaxUsers == 4

\* The user ids tried: the first MaxUsers of these.
UserIdList ==
    << <<"a", "@", "b">>, <<"a", ".", "b">>, <<"b">>, <<"a", "b">>, <<"a", "_", "b">>,
       <<"a", "-", "b">> >>

UserIds == {UserIdList[k] : k \in 1..MaxUsers}

StoredCredentials ==
    { [token |-> "t1", refresh_token |-> "r1"], [token |-> "t2", refresh_token |-> "r2"] }

\* ---- actions; the methods are coroutines without an await, so each runs
\* to its end before another starts, and the store is ready for the next call.

store ==
    /\ pc = "idle"
    /\ \E user_id \in UserIds, credentials \in StoredCredentials :
          /\ call' = [op |-> "store", user_id |-> user_id, credentials |-> credentials]
          /\ directory' = [path \in DOMAIN directory \cup {_get_path(user_id)} |->
                              IF path = _get_path(user_id) THEN credentials ELSE directory[path]]
    /\ result' = [status |-> "ok", value |-> [kind |-> "None"]]
    /\ UNCHANGED <<pc, presentation, batches>>

retrieve ==
    /\ pc = "idle"
    /\ \E user_id \in UserIds :
          /\ call' = [op |-> "retrieve", user_id |-> user_id]
          /\ result' = [status |-> "ok", value |-> Retrieve(directory, user_id)]
    /\ UNCHANGED <<pc, presentation, batches, directory>>

delete ==
    /\ pc = "idle"
    /\ \E user_id \in UserIds :
          /\ call' = [op |-> "delete", user_id |-> user_id]
          /\ directory' = [path \in DOMAIN directory \ {_get_path(user_id)} |-> directory[path]]
    /\ result' = [status |-> "ok", value |-> [kind |-> "None"]]
    /\ UNCHANGED <<pc, presentation, batches>>

NextTokenStore == store \/ retrieve \/ delete

SpecTokenStore == InitPure /\ [][NextTokenStore]_vars

\* ---- claims

\* C26: every user's credentials are in a file of their own: a store or a
\* delete for user A never changes what retrieve returns for another user B,
\* and retrieve(A) returns what was last stored for A, None after delete(A)
\* and before any store.
C26_SeparateFiles ==
    /\ \A user_id \in UserIds : Retrieve(directory, user_id) = [kind |-> "None"]
    /\ [][ /\ call'.op \in {"store", "delete"} =>
                \A B \in UserIds \ {call'.user_id} :
                    Retrieve(directory', B) = Retrieve(directory, B)
           /\ call'.op = "store" =>
                Retrieve(directory', call'.user_id)
                    = [kind |-> "dict", value |-> call'.credentials]
           /\ call'.op = "delete" =>
                Retrieve(directory', call'.user_id) = [kind |-> "None"]
           /\ call'.op = "retrieve" =>
                /\ result'.value = Retrieve(directory, call'.user_id)
                /\ directory' = directory ]_vars

====
